---- MODULE Spec2Model ----
(***************************************************************************)
(* A model of gotrails: the body capture/replay reader (package body),     *)
(* the asynchronous delivery pipeline (package async), the Trail with its  *)
(* sampling, hashing, cloning and context helpers (package gotrails), the  *)
(* Masker (package masker), the header Filter (package header), the        *)
(* MultiSink (package sink), the HTTP middleware with its response writer, *)
(* TraceStep and the outbound HTTP round tripper (package transport).      *)
(***************************************************************************)
EXTENDS Integers, Sequences, FiniteSets, TLC

\* ------------------------------------------------------------------ bounds
\* longest source stream of the body reader
MaxBodyLen == 3
\* largest byte ceiling (Reader.maxSize) of the body reader
MaxCeiling == 2
\* largest number of bytes one Read call on the replacement stream asks for
MaxChunk == 2

\* most Write calls made on one AsyncSink
MaxWrites == 3
\* the Write calls made beyond the queue's capacity in the drop-on-full scenario
ExtraWrites == 5
\* largest queue capacity (queueSize of NewAsyncSink)
MaxQueue == 2
\* largest worker count (WithWorkers)
MaxWorkers == 2
\* most sink.Write calls that return an error
MaxSinkErrs == 1
\* the sampling rate and the sampling draw are counted in 1/SampleSteps
SampleSteps == 4
\* milliseconds the clock runs for
MaxClock == 1
\* longest InternalSteps, Integrations and Errors sequence of a Trail
MaxItems == 1
\* operations called on the one Trail of SpecTrail
MaxCalls == 4
\* operations called on the two Trails of SpecPair
MaxPairCalls == 5
\* operations called on the Trail of SpecClone and on its clone
MaxCloneCalls == 3
\* operations one unit of work of SpecHandler calls
MaxHandlerCalls == 6
\* deepest nesting of the values handed to the Masker
MaxDepth == 3
\* longest value list of a source header
MaxValues == 2
\* most []string values the header maps of the model hold in all
MaxSlices == 6
\* writes made to the source or to the filtered header map
MaxMutations == 1
\* calls each recorder makes on the shared Trail
MaxRecCalls == 2
\* most member sinks of a MultiSink
MaxSinks == 3
\* Write and Close calls made on the MultiSink
MaxMultiCalls == 2
\* operations one request served by HTTPMiddleware.Handler calls
MaxMiddlewareCalls == 8
\* lowest queueSize and WithWorkers argument given to NewAsyncSink is -MaxBelow
MaxBelow == 1
\* Write calls made on one responseWriter
MaxRespWrites == 3
\* TraceStep and Finalize calls made around one context
MaxTraceCalls == 3

Byte == {0, 1}

\* the goroutines calling AsyncSink.Write
Writers == {"w1", "w2"}
\* the Close calls, named in the order they take closeMu
Closers == {"c1", "c2"}

Min(a, b) == IF a < b THEN a ELSE b

\* the sequences over S of length 0..n
SeqsUpTo(S, n) == UNION {[1..k -> S] : k \in 0..n}

\* s[:n]
Take(s, n) == SubSeq(s, 1, Min(n, Len(s)))

\* the elements of a sequence
Range(s) == {s[i] : i \in 1..Len(s)}

\* ------------------------------------------------------------------ state
VARIABLES
    \* package body
    src,        \* the bytes the source stream holds
    srcNil,     \* the body handed to ReadAndRestore is nil
    srcErr,     \* the source ends in a read error instead of io.EOF
    maxSize,    \* Reader.maxSize
    srcPos,     \* how many bytes have been read off the source
    srcClosed,  \* body.Close() was called
    rar,        \* "init" before ReadAndRestore, "returned" after
    data,       \* the []byte ReadAndRestore returned
    rarErr,     \* ReadAndRestore returned a non-nil error
    newBody,    \* the io.ReadCloser ReadAndRestore returned
    replayOut,  \* the bytes read off newBody so far
    replayEnd   \* "open", or how reading newBody ended: "eof", "err"

VARIABLES
    \* package async: the AsyncSink's configuration
    queueSize,   \* cap(a.queue)
    workers,     \* a.workers
    dropOnFull,  \* a.dropOnFull
    onError,     \* a.onError != nil
    \* package async: the AsyncSink's state
    closed,      \* a.closed
    queue,       \* a.queue: the buffered trails, oldest first
    qClosed,     \* close(a.queue) has run
    panicked,    \* a goroutine panicked: the process is gone
    budget,      \* how many Write calls the callers make in all
    nextId,      \* the number of the next Write call
    wpc,         \* each writer's place in Write: "idle", "cloned"
    wtrail,      \* the clone a writer in Write holds (0: not in Write)
    wctx,        \* the ctx of a writer in Write: "live", "pre" (cancelled before the call), "fired"
    kpc,         \* each worker's place: "off", "range", "write", "exited"
    ktrail,      \* the trail a worker passed to sink.Write (0: none)
    cpc,         \* each closer's place in Close: "idle", "marked", "waiting", "done"
    \* what the external sink and the callback saw
    enqueued,    \* the ids of the trails ever placed in a.queue
    ret,         \* what the i-th Write call returned: "none" (not yet),
                 \* "nil", "ctxErr"
    sinkWrites,  \* the trails sink.Write was called with, in call order
    sinkErrs,    \* how many sink.Write calls returned an error
    errCalls,    \* how many times a.onError was called
    queueCloses, \* how many times close(a.queue) ran
    sinkCloses   \* how many times sink.Close was called

bodyVars == <<src, srcNil, srcErr, maxSize, srcPos, srcClosed, rar, data,
              rarErr, newBody, replayOut, replayEnd>>

asyncVars == <<queueSize, workers, dropOnFull, onError, closed, queue,
               qClosed, panicked, budget, nextId, wpc, wtrail, wctx, kpc, ktrail,
               cpc, enqueued, ret, sinkWrites, sinkErrs, errCalls,
               queueCloses, sinkCloses>>

\* the Trail model
VARIABLES
    cfgImmutable, \* Config.Immutable
    samplingRate, \* Config.SamplingRate, in 1/SampleSteps
    now,          \* the clock, in milliseconds
    trail,        \* the Trail each Trail variable points to
    reqs,         \* the HTTPRequest objects
    resps,        \* the HTTPResponse objects
    draws,        \* how many times rand.Float64 was called
    lastDraw,     \* the value of the last draw, in 1/SampleSteps
    lastOp,       \* the last operation called and the Trail variable it was called on
    lastRet,      \* the digest the last operation returned, if it returned one
    nilPanic,     \* a nil pointer dereference panicked
    calls,        \* how many operations were called
    callBudget    \* how many operations the callers call

trailVars == <<cfgImmutable, samplingRate, now, trail, reqs, resps, draws,
               lastDraw, lastOp, lastRet, nilPanic, calls, callBudget>>

\* package masker, and the body capture of the middlewares and the round
\* tripper
VARIABLE masking  \* one Masker and the value a caller hands it
maskVars == <<masking>>
fields == masking.fields        \* Masker.fields, the lower-cased field names
maskValue == masking.maskValue  \* Masker.maskValue
enabled == masking.enabled      \* Masker.enabled
input == masking.input          \* the value, or the body bytes, a caller holds
output == masking.output        \* what the last masking or capture call returned
maskOp == masking.maskOp        \* the last operation called on the Masker, with its flag

\* package header
VARIABLE filtering  \* one Filter and the header maps around it
headerVars == <<filtering>>
headerFilter == filtering.headerFilter  \* the Filter: excludeHeaders, includeHeaders, maskValue
headers == filtering.headers            \* the source header map handed to Filter
slices == filtering.slices              \* the []string values the header maps point to
result == filtering.result              \* the header map Filter returned
filterOp == filtering.filterOp          \* the last operation on the Filter or on a header map
mutations == filtering.mutations        \* how many writes to header maps were made

\* the goroutines that record on one Trail
VARIABLE recording  \* Trail.mu and the goroutines inside the mutators
lockVars == <<recording>>
mu == recording.mu    \* Trail.mu: "free", or the goroutine that holds it
rec == recording.rec  \* each recorder's place in its call, the slice it read, the calls it made

\* package sink: the MultiSink
VARIABLE multi  \* one MultiSink and the call running on it
multiVars == <<multi>>
sinks == multi.sinks              \* len(m.sinks)
multiOp == multi.multiOp          \* the MultiSink method that is running: "Write", "Close", or "idle"
multiIdx == multi.multiIdx        \* the member the loop is at
lastErr == multi.lastErr          \* the local lastErr
memberCalls == multi.memberCalls  \* the member calls the running method made, in order
multiRet == multi.multiRet        \* the method that returned last and the error it returned
multiCalls == multi.multiCalls    \* how many calls were made on the MultiSink

\* package async: the arguments of NewAsyncSink
VARIABLE newSinkArgs  \* the queueSize and the WithWorkers argument given
argVars == <<newSinkArgs>>

\* package middleware: one responseWriter (ginResponseWriter has the same Write)
VARIABLE rw  \* maxSize, body, and what the caller gave and the wrapped writer got
writerVars == <<rw>>

\* package gotrails: the TraceStep call under way and what fn and TraceStep returned
VARIABLE tracing
traceVars == <<tracing>>

\* package transport: one HTTPRoundTripper.RoundTrip call and its caller
VARIABLE trip
tripVars == <<trip>>

vars == <<bodyVars, asyncVars, trailVars, maskVars, headerVars, lockVars, multiVars, argVars, writerVars, traceVars, tripVars>>

\* ------------------------------------------------------------ package body
NoBody == [kind |-> "nil", buf |-> <<>>, pos |-> 0]

\* io.ReadAll(io.LimitReader(body, n)) on a fresh source: its first n bytes
LimitedRead(s, n) == Take(s, n)

\* Truncated with >= for >: a body of exactly maxSize bytes counts as cut
TruncatedAtCeiling(d, max) == Len(d) >= max

\* truncated := len(data) > r.maxSize
Truncated(d, max) == Len(d) > max

InitBody ==
    /\ src \in SeqsUpTo(Byte, MaxBodyLen)
    /\ srcNil \in BOOLEAN
    /\ srcErr \in BOOLEAN
    /\ srcNil => (src = <<>> /\ ~srcErr)
    /\ maxSize \in 0..MaxCeiling
    /\ srcPos = 0
    /\ srcClosed = FALSE
    /\ rar = "init"
    /\ data = <<>>
    /\ rarErr = FALSE
    /\ newBody = NoBody
    /\ replayOut = <<>>
    /\ replayEnd = "open"

\* Reader.ReadAndRestore(body)
ReadAndRestore ==
    /\ rar = "init"
    /\ rar' = "returned"
    /\ IF srcNil
       THEN \* return nil, nil, nil
            /\ data' = <<>>
            /\ newBody' = NoBody
            /\ UNCHANGED <<srcPos, srcClosed, rarErr>>
       ELSE LET read == LimitedRead(src, maxSize + 1)
                \* the limited reader met the source's end, and it was an error
                failed == srcErr /\ Len(read) < maxSize + 1
                truncated == Truncated(read, maxSize)
                d == IF truncated THEN Take(read, maxSize) ELSE read
            IN  /\ srcPos' = Len(read)
                /\ IF failed
                   THEN \* return nil, body, err
                        /\ data' = <<>>
                        /\ newBody' = [kind |-> "orig", buf |-> <<>>, pos |-> 0]
                        /\ rarErr' = TRUE
                        /\ UNCHANGED srcClosed
                   ELSE /\ data' = d
                        /\ rarErr' = FALSE
                        /\ IF truncated
                           THEN \* io.MultiReader(bytes.NewReader(data), body)
                                /\ newBody' = [kind |-> "multi", buf |-> d, pos |-> 0]
                                /\ UNCHANGED srcClosed
                           ELSE \* body.Close(); io.NopCloser(bytes.NewReader(data))
                                /\ newBody' = [kind |-> "nop", buf |-> d, pos |-> 0]
                                /\ srcClosed' = TRUE
    /\ UNCHANGED <<src, srcNil, srcErr, maxSize, replayOut, replayEnd>>
    /\ UNCHANGED <<asyncVars, trailVars, maskVars, headerVars, lockVars, multiVars, argVars, writerVars, traceVars, tripVars>>

\* one Read(p) call, len(p) = n, on the stream ReadAndRestore returned
ReplayRead(n) ==
    /\ rar = "returned"
    /\ newBody.kind # "nil"
    /\ replayEnd = "open"
    /\ IF newBody.pos < Len(newBody.buf)
       THEN \* the bytes.Reader still has bytes
            LET k == Min(n, Len(newBody.buf) - newBody.pos)
            IN  /\ replayOut' = replayOut \o SubSeq(newBody.buf, newBody.pos + 1, newBody.pos + k)
                /\ newBody' = [newBody EXCEPT !.pos = @ + k]
                /\ UNCHANGED <<srcPos, replayEnd>>
       ELSE IF newBody.kind = "nop"
       THEN /\ replayEnd' = "eof"
            /\ UNCHANGED <<replayOut, newBody, srcPos>>
       ELSE \* the rest comes off the source, from where reading it stopped
            IF srcClosed
            THEN /\ replayEnd' = "err"
                 /\ UNCHANGED <<replayOut, newBody, srcPos>>
            ELSE IF srcPos < Len(src)
            THEN LET k == Min(n, Len(src) - srcPos)
                 IN  /\ replayOut' = replayOut \o SubSeq(src, srcPos + 1, srcPos + k)
                     /\ srcPos' = srcPos + k
                     /\ UNCHANGED <<newBody, replayEnd>>
            ELSE /\ replayEnd' = IF srcErr THEN "err" ELSE "eof"
                 /\ UNCHANGED <<replayOut, newBody, srcPos>>
    /\ UNCHANGED <<src, srcNil, srcErr, maxSize, srcClosed, rar, data, rarErr>>
    /\ UNCHANGED <<asyncVars, trailVars, maskVars, headerVars, lockVars, multiVars, argVars, writerVars, traceVars, tripVars>>

\* newBody.Close(): multiReadCloser closes the source, the NopCloser nothing
ReplayClose ==
    /\ rar = "returned"
    /\ newBody.kind \in {"multi", "orig"}
    /\ ~srcClosed
    /\ srcClosed' = TRUE
    /\ UNCHANGED <<src, srcNil, srcErr, maxSize, srcPos, rar, data, rarErr,
                   newBody, replayOut, replayEnd>>
    /\ UNCHANGED <<asyncVars, trailVars, maskVars, headerVars, lockVars, multiVars, argVars, writerVars, traceVars, tripVars>>

NextBody ==
    \/ ReadAndRestore
    \/ \E n \in 1..MaxChunk : ReplayRead(n)
    \/ ReplayClose

\* ----------------------------------------------------------- package async
\* the state NewAsyncSink leaves behind: the queue is empty and a.workers
\* workers wait in their range loop
Started ==
    /\ closed = FALSE
    /\ queue = <<>>
    /\ qClosed = FALSE
    /\ panicked = FALSE
    /\ nextId = 1
    /\ wpc = [w \in Writers |-> "idle"]
    /\ wtrail = [w \in Writers |-> 0]
    /\ wctx = [w \in Writers |-> "live"]
    /\ kpc = [k \in 1..MaxWorkers |-> IF k <= workers THEN "range" ELSE "off"]
    /\ ktrail = [k \in 1..MaxWorkers |-> 0]
    /\ cpc = [c \in Closers |-> "idle"]
    /\ enqueued = {}
    /\ ret = [i \in 1..budget |-> "none"]
    /\ sinkWrites = <<>>
    /\ sinkErrs = 0
    /\ errCalls = 0
    /\ queueCloses = 0
    /\ sinkCloses = 0

\* no AsyncSink exists
NoAsync ==
    /\ queueSize = 1
    /\ workers = 0
    /\ dropOnFull = FALSE
    /\ onError = FALSE
    /\ budget = 0
    /\ Started

\* no body reader exists
NoBodyRead ==
    /\ src = <<>>
    /\ srcNil = TRUE
    /\ srcErr = FALSE
    /\ maxSize = 0
    /\ srcPos = 0
    /\ srcClosed = FALSE
    /\ rar = "init"
    /\ data = <<>>
    /\ rarErr = FALSE
    /\ newBody = NoBody
    /\ replayOut = <<>>
    /\ replayEnd = "open"

\* NewAsyncSink(s, queueSize, opts...) under any options
InitAsync ==
    /\ queueSize \in 1..MaxQueue
    /\ workers \in 1..MaxWorkers
    /\ dropOnFull \in BOOLEAN
    /\ onError \in BOOLEAN
    /\ budget = MaxWrites
    /\ Started

\* NewAsyncSink(s, queueSize, WithDropOnFull(true)), for callers that make
\* queueSize + ExtraWrites Write calls
InitDrop ==
    /\ queueSize \in 1..MaxQueue
    /\ workers \in 1..MaxWorkers
    /\ dropOnFull = TRUE
    /\ onError = FALSE
    /\ budget = queueSize + ExtraWrites
    /\ Started

config == <<queueSize, workers, dropOnFull, onError, budget>>
sinkSide == <<sinkWrites, sinkErrs, errCalls, sinkCloses>>
workerSide == <<kpc, ktrail>>

\* WriteCheck with the closed test lost: a Write on a closed pipeline goes on
WriteCheckUnchecked(w, ctx) ==
    /\ ~panicked
    /\ wpc[w] = "idle"
    /\ nextId <= budget
    /\ nextId' = nextId + 1
    /\ IF FALSE
       THEN \* return nil
            /\ ret' = [ret EXCEPT ![nextId] = "nil"]
            /\ UNCHANGED <<wpc, wtrail, wctx>>
       ELSE /\ wpc' = [wpc EXCEPT ![w] = "cloned"]
            /\ wctx' = [wctx EXCEPT ![w] = ctx]
            /\ wtrail' = [wtrail EXCEPT ![w] = nextId]
            /\ UNCHANGED ret
    /\ UNCHANGED <<config, closed, queue, qClosed, panicked, cpc, enqueued,
                   queueCloses, workerSide, sinkSide>>
    /\ UNCHANGED <<bodyVars, trailVars, maskVars, headerVars, lockVars, multiVars, argVars, writerVars, traceVars, tripVars>>

\* Write, lines 89-97: the closed check under closeMu, then the clone; the call
\* is the nextId-th Write call and its trail is named after it
WriteCheck(w, ctx) ==
    /\ ~panicked
    /\ wpc[w] = "idle"
    /\ nextId <= budget
    /\ nextId' = nextId + 1
    /\ IF closed
       THEN \* return nil
            /\ ret' = [ret EXCEPT ![nextId] = "nil"]
            /\ UNCHANGED <<wpc, wtrail, wctx>>
       ELSE /\ wpc' = [wpc EXCEPT ![w] = "cloned"]
            /\ wctx' = [wctx EXCEPT ![w] = ctx]
            /\ wtrail' = [wtrail EXCEPT ![w] = nextId]
            /\ UNCHANGED ret
    /\ UNCHANGED <<config, closed, queue, qClosed, panicked, cpc, enqueued,
                   queueCloses, workerSide, sinkSide>>
    /\ UNCHANGED <<bodyVars, trailVars, maskVars, headerVars, lockVars, multiVars, argVars, writerVars, traceVars, tripVars>>

\* the caller's ctx is cancelled while its Write is under way (only the
\* blocking select, line 108, reads ctx)
CtxCancel(w) ==
    /\ ~panicked
    /\ wpc[w] = "cloned"
    /\ ~dropOnFull
    /\ wctx[w] = "live"
    /\ wctx' = [wctx EXCEPT ![w] = "fired"]
    /\ UNCHANGED <<config, closed, queue, qClosed, panicked, nextId, wpc, wtrail,
                   cpc, enqueued, ret, queueCloses, workerSide, sinkSide>>
    /\ UNCHANGED <<bodyVars, trailVars, maskVars, headerVars, lockVars, multiVars, argVars, writerVars, traceVars, tripVars>>

\* CanSend with the capacity test lost: a queue that never fills
CanSendUnbounded == ~qClosed

\* a send on a.queue can go ahead: the channel is open and has a free slot
CanSend == ~qClosed /\ Len(queue) < queueSize

\* Write, lines 101 and 107: case a.queue <- cloned, then return nil
WriteSend(w) ==
    /\ ~panicked
    /\ wpc[w] = "cloned"
    /\ CanSend
    /\ queue' = Append(queue, wtrail[w])
    /\ enqueued' = enqueued \cup {wtrail[w]}
    /\ wpc' = [wpc EXCEPT ![w] = "idle"]
    /\ wtrail' = [wtrail EXCEPT ![w] = 0]
    /\ wctx' = [wctx EXCEPT ![w] = "live"]
    /\ ret' = [ret EXCEPT ![wtrail[w]] = "nil"]
    /\ UNCHANGED <<config, closed, qClosed, panicked, nextId, cpc,
                   queueCloses, workerSide, sinkSide>>
    /\ UNCHANGED <<bodyVars, trailVars, maskVars, headerVars, lockVars, multiVars, argVars, writerVars, traceVars, tripVars>>

\* Write, lines 102-104: default, the queue is full and the trail is dropped
WriteDrop(w) ==
    /\ ~panicked
    /\ wpc[w] = "cloned"
    /\ dropOnFull
    /\ ~qClosed
    /\ Len(queue) >= queueSize
    /\ wpc' = [wpc EXCEPT ![w] = "idle"]
    /\ wtrail' = [wtrail EXCEPT ![w] = 0]
    /\ wctx' = [wctx EXCEPT ![w] = "live"]
    /\ ret' = [ret EXCEPT ![wtrail[w]] = "nil"]
    /\ UNCHANGED <<config, closed, queue, qClosed, panicked, nextId,
                   cpc, enqueued, queueCloses, workerSide, sinkSide>>
    /\ UNCHANGED <<bodyVars, trailVars, maskVars, headerVars, lockVars, multiVars, argVars, writerVars, traceVars, tripVars>>

\* a WriteCancel that has sent its clone before it returns ctx.Err()
WriteCancelSent(w) ==
    /\ ~panicked
    /\ wpc[w] = "cloned"
    /\ ~dropOnFull
    /\ wctx[w] \in {"pre", "fired"}
    /\ CanSend
    /\ queue' = Append(queue, wtrail[w])
    /\ enqueued' = enqueued \cup {wtrail[w]}
    /\ wpc' = [wpc EXCEPT ![w] = "idle"]
    /\ wtrail' = [wtrail EXCEPT ![w] = 0]
    /\ wctx' = [wctx EXCEPT ![w] = "live"]
    /\ ret' = [ret EXCEPT ![wtrail[w]] = "ctxErr"]
    /\ UNCHANGED <<config, closed, qClosed, panicked, nextId,
                   cpc, queueCloses, workerSide, sinkSide>>
    /\ UNCHANGED <<bodyVars, trailVars, maskVars, headerVars, lockVars, multiVars, argVars, writerVars, traceVars, tripVars>>

\* Write, lines 108-109: case <-ctx.Done(), return ctx.Err()
WriteCancel(w) ==
    /\ ~panicked
    /\ wpc[w] = "cloned"
    /\ ~dropOnFull
    /\ wctx[w] \in {"pre", "fired"}
    /\ wpc' = [wpc EXCEPT ![w] = "idle"]
    /\ wtrail' = [wtrail EXCEPT ![w] = 0]
    /\ wctx' = [wctx EXCEPT ![w] = "live"]
    /\ ret' = [ret EXCEPT ![wtrail[w]] = "ctxErr"]
    /\ UNCHANGED <<config, closed, queue, qClosed, panicked, nextId,
                   cpc, enqueued, queueCloses, workerSide, sinkSide>>
    /\ UNCHANGED <<bodyVars, trailVars, maskVars, headerVars, lockVars, multiVars, argVars, writerVars, traceVars, tripVars>>

\* Write, lines 101 and 107 after close(a.queue): a send on a closed channel
\* is a run-time panic, which nothing recovers
WritePanic(w) ==
    /\ ~panicked
    /\ wpc[w] = "cloned"
    /\ qClosed
    /\ panicked' = TRUE
    /\ UNCHANGED <<config, closed, queue, qClosed, nextId, wpc, wtrail, wctx, cpc, enqueued, ret, queueCloses, workerSide, sinkSide>>
    /\ UNCHANGED <<bodyVars, trailVars, maskVars, headerVars, lockVars, multiVars, argVars, writerVars, traceVars, tripVars>>

\* WorkerTake that leaves the trail in the queue: it is delivered again
WorkerTakePeek(k) ==
    /\ ~panicked
    /\ kpc[k] = "range"
    /\ queue # <<>>
    /\ queue' = queue
    /\ kpc' = [kpc EXCEPT ![k] = "write"]
    /\ ktrail' = [ktrail EXCEPT ![k] = Head(queue)]
    /\ sinkWrites' = Append(sinkWrites, Head(queue))
    /\ UNCHANGED <<config, closed, qClosed, panicked, nextId, wpc, wtrail, wctx,
                   cpc, enqueued, ret, queueCloses, sinkErrs, errCalls,
                   sinkCloses>>
    /\ UNCHANGED <<bodyVars, trailVars, maskVars, headerVars, lockVars, multiVars, argVars, writerVars, traceVars, tripVars>>

\* worker, lines 78-79: a trail comes off the queue and goes to sink.Write
WorkerTake(k) ==
    /\ ~panicked
    /\ kpc[k] = "range"
    /\ queue # <<>>
    /\ queue' = Tail(queue)
    /\ kpc' = [kpc EXCEPT ![k] = "write"]
    /\ ktrail' = [ktrail EXCEPT ![k] = Head(queue)]
    /\ sinkWrites' = Append(sinkWrites, Head(queue))
    /\ UNCHANGED <<config, closed, qClosed, panicked, nextId, wpc, wtrail, wctx,
                   cpc, enqueued, ret, queueCloses, sinkErrs, errCalls,
                   sinkCloses>>
    /\ UNCHANGED <<bodyVars, trailVars, maskVars, headerVars, lockVars, multiVars, argVars, writerVars, traceVars, tripVars>>

\* WorkerWritten that swallows the error: a.onError is never called
WorkerWrittenSilent(k, err) ==
    /\ ~panicked
    /\ kpc[k] = "write"
    /\ err => sinkErrs < MaxSinkErrs
    /\ kpc' = [kpc EXCEPT ![k] = "range"]
    /\ ktrail' = [ktrail EXCEPT ![k] = 0]
    /\ sinkErrs' = IF err THEN sinkErrs + 1 ELSE sinkErrs
    /\ errCalls' = errCalls
    /\ UNCHANGED <<config, closed, queue, qClosed, panicked, nextId, wpc, wtrail,
                   wctx, cpc, enqueued, ret, queueCloses, sinkWrites,
                   sinkCloses>>
    /\ UNCHANGED <<bodyVars, trailVars, maskVars, headerVars, lockVars, multiVars, argVars, writerVars, traceVars, tripVars>>

\* worker, lines 79-83: sink.Write returns; on an error a.onError, if set,
\* is called; the loop goes on
WorkerWritten(k, err) ==
    /\ ~panicked
    /\ kpc[k] = "write"
    /\ err => sinkErrs < MaxSinkErrs
    /\ kpc' = [kpc EXCEPT ![k] = "range"]
    /\ ktrail' = [ktrail EXCEPT ![k] = 0]
    /\ sinkErrs' = IF err THEN sinkErrs + 1 ELSE sinkErrs
    /\ errCalls' = IF err /\ onError THEN errCalls + 1 ELSE errCalls
    /\ UNCHANGED <<config, closed, queue, qClosed, panicked, nextId, wpc, wtrail,
                   wctx, cpc, enqueued, ret, queueCloses, sinkWrites,
                   sinkCloses>>
    /\ UNCHANGED <<bodyVars, trailVars, maskVars, headerVars, lockVars, multiVars, argVars, writerVars, traceVars, tripVars>>

\* worker, lines 76 and 78: the queue is closed and empty, the range loop
\* ends and wg.Done runs
WorkerExit(k) ==
    /\ ~panicked
    /\ kpc[k] = "range"
    /\ queue = <<>>
    /\ qClosed
    /\ kpc' = [kpc EXCEPT ![k] = "exited"]
    /\ UNCHANGED <<config, closed, queue, qClosed, panicked, nextId, wpc, wtrail,
                   wctx, ktrail, cpc, enqueued, ret, queueCloses,
                   sinkSide>>
    /\ UNCHANGED <<bodyVars, trailVars, maskVars, headerVars, lockVars, multiVars, argVars, writerVars, traceVars, tripVars>>

\* CloseCheck with the closed test lost: every Close call shuts down
CloseCheckUnchecked(c) ==
    /\ ~panicked
    /\ cpc[c] = "idle"
    \* c1 names the call that takes closeMu first
    /\ c = "c2" => cpc["c1"] # "idle"
    /\ IF FALSE
       THEN \* return nil
            /\ cpc' = [cpc EXCEPT ![c] = "done"]
            /\ UNCHANGED closed
       ELSE /\ closed' = TRUE
            /\ cpc' = [cpc EXCEPT ![c] = "marked"]
    /\ UNCHANGED <<config, queue, qClosed, panicked, nextId, wpc, wtrail, wctx,
                   enqueued, ret, queueCloses, workerSide, sinkSide>>
    /\ UNCHANGED <<bodyVars, trailVars, maskVars, headerVars, lockVars, multiVars, argVars, writerVars, traceVars, tripVars>>

\* Close, lines 118-124: the closed check and mark under closeMu
CloseCheck(c) ==
    /\ ~panicked
    /\ cpc[c] = "idle"
    \* c1 names the call that takes closeMu first
    /\ c = "c2" => cpc["c1"] # "idle"
    /\ IF closed
       THEN \* return nil
            /\ cpc' = [cpc EXCEPT ![c] = "done"]
            /\ UNCHANGED closed
       ELSE /\ closed' = TRUE
            /\ cpc' = [cpc EXCEPT ![c] = "marked"]
    /\ UNCHANGED <<config, queue, qClosed, panicked, nextId, wpc, wtrail, wctx,
                   enqueued, ret, queueCloses, workerSide, sinkSide>>
    /\ UNCHANGED <<bodyVars, trailVars, maskVars, headerVars, lockVars, multiVars, argVars, writerVars, traceVars, tripVars>>

\* Close, line 126: close(a.queue); closing a closed channel panics
CloseQueue(c) ==
    /\ ~panicked
    /\ cpc[c] = "marked"
    /\ IF qClosed
       THEN /\ panicked' = TRUE
            /\ UNCHANGED <<qClosed, queueCloses, cpc>>
       ELSE /\ qClosed' = TRUE
            /\ queueCloses' = queueCloses + 1
            /\ cpc' = [cpc EXCEPT ![c] = "waiting"]
            /\ UNCHANGED panicked
    /\ UNCHANGED <<config, closed, queue, nextId, wpc, wtrail, wctx, enqueued, ret, workerSide, sinkSide>>
    /\ UNCHANGED <<bodyVars, trailVars, maskVars, headerVars, lockVars, multiVars, argVars, writerVars, traceVars, tripVars>>

\* WgDone with the wait lost: Close goes on while workers still run
WgNoWait == TRUE

\* wg.Wait() returns: every worker started has run wg.Done
WgDone == \A k \in 1..MaxWorkers : kpc[k] \in {"off", "exited"}

\* Close, lines 127-129: a.wg.Wait(), then return a.sink.Close()
CloseSink(c) ==
    /\ ~panicked
    /\ cpc[c] = "waiting"
    /\ WgDone
    /\ sinkCloses' = sinkCloses + 1
    /\ cpc' = [cpc EXCEPT ![c] = "done"]
    /\ UNCHANGED <<config, closed, queue, qClosed, panicked, nextId, wpc, wtrail,
                   wctx, enqueued, ret, queueCloses, workerSide,
                   sinkWrites, sinkErrs, errCalls>>
    /\ UNCHANGED <<bodyVars, trailVars, maskVars, headerVars, lockVars, multiVars, argVars, writerVars, traceVars, tripVars>>

NextAsync ==
    \/ \E w \in Writers, ctx \in {"live", "pre"} : WriteCheck(w, ctx)
    \/ \E w \in Writers : CtxCancel(w)
    \/ \E w \in Writers : WriteSend(w)
    \/ \E w \in Writers : WriteDrop(w)
    \/ \E w \in Writers : WriteCancel(w)
    \/ \E w \in Writers : WritePanic(w)
    \/ \E k \in 1..MaxWorkers : WorkerTake(k)
    \/ \E k \in 1..MaxWorkers, err \in BOOLEAN : WorkerWritten(k, err)
    \/ \E k \in 1..MaxWorkers : WorkerExit(k)
    \/ \E c \in Closers : CloseCheck(c)
    \/ \E c \in Closers : CloseQueue(c)
    \/ \E c \in Closers : CloseSink(c)

\* the pipeline whose external sink never returns from Write: every worker
\* stays in its first sink.Write call for good
NextStalled ==
    \/ \E w \in Writers : WriteCheck(w, "live")
    \/ \E w \in Writers : WriteSend(w)
    \/ \E w \in Writers : WriteDrop(w)
    \/ \E w \in Writers : WritePanic(w)
    \/ \E k \in 1..MaxWorkers : WorkerTake(k)
    \/ \E k \in 1..MaxWorkers : WorkerExit(k)
    \/ \E c \in Closers : CloseCheck(c)
    \/ \E c \in Closers : CloseQueue(c)
    \/ \E c \in Closers : CloseSink(c)

\* --------------------------------------------------------- package gotrails
\* the Trail variables a caller can hold: t is built by NewTrail, c by
\* NewTrail or by Clone
TrailIds == {"t", "c"}
\* the HTTPRequest and HTTPResponse objects a caller can allocate; 0 is nil
ReqIds == {1}
RespIds == {1}
\* trace ids passed to NewTrail
TraceIDs == {"trace-1"}
\* strings passed to SetPrevHash
PrevHashes == {"", "prev-hash"}
\* codes passed to AddErrorWithCode
ErrorCodes == {"E1"}
\* map keys in the order sort.Strings gives them
KeyOrder == <<"a", "b">>
MetaKeys == Range(KeyOrder)
\* the orders in which a range over a map can visit its keys
IterOrders == {o \in [1..Len(KeyOrder) -> MetaKeys] : Range(o) = MetaKeys}
EmptyMap == [k \in {} |-> <<>>]
\* values of type any put into a map: a string, or a nested map[string]any
MetaValues == {<<"s", "v1">>,
               <<"m", [k \in MetaKeys |-> <<"s", "v1">>]>>}
\* m[k] = v on a Go map
MapSet(m, k, v) == [j \in DOMAIN m \cup {k} |-> IF j = k THEN v ELSE m[j]]
\* the empty string of the Hash field, and the digest of input b (sha256 is
\* modelled as collision free: the digest determines its input)
NoHash == <<>>
Sha256Hex(b) == <<"sha256", b>>

\* a nil *Trail
NilTrail ==
    [isNil |-> TRUE, Timestamp |-> 0, TraceID |-> "", RequestID |-> "",
     Service |-> "", Environment |-> "", Request |-> 0,
     Response |-> 0, LatencyMs |-> 0, startTime |-> 0,
     InternalSteps |-> <<>>, Integrations |-> <<>>, Errors |-> <<>>,
     Metadata |-> EmptyMap, metaOrder |-> <<>>, immutable |-> FALSE,
     cfg |-> FALSE, Hash |-> NoHash, prevHash |-> ""]

\* &HTTPRequest{Method: ..., Path: ...} and &HTTPResponse{Status: ...}
NewRequest == [Method |-> "POST", Path |-> "/v1/payments", Headers |-> EmptyMap]
NewResponse == [Status |-> 201, Headers |-> EmptyMap]

\* no Trail variable, request or response exists and no call is made
NoTrails ==
    /\ cfgImmutable = FALSE
    /\ samplingRate = 0
    /\ now = 0
    /\ trail = <<>>
    /\ reqs = <<>>
    /\ resps = <<>>
    /\ draws = 0
    /\ lastDraw = 0
    /\ lastOp = <<>>
    /\ lastRet = NoHash
    /\ nilPanic = FALSE
    /\ calls = 0
    /\ callBudget = 0

\* the keys of m in the order one range over the map visits them
MapRange(m, o) == SelectSeq(o, LAMBDA k : k \in DOMAIN m)
\* the keys are written in the order the range visited them
UnsortedKeys(ks) == ks
\* encoding/json sorts the keys of a map before writing it
SortKeys(ks) == SelectSeq(KeyOrder, LAMBDA k : k \in Range(ks))

RECURSIVE MarshalMap(_, _)
\* json.Marshal of a value of type any; os holds one range order for each
\* nesting depth
MarshalValue(v, os) ==
    IF v[1] = "s" THEN v ELSE <<"m", MarshalMap(v[2], Tail(os))>>
\* json.Marshal of a map: the entries by sorted key
MarshalMap(m, os) ==
    LET ks == SortKeys(MapRange(m, Head(os)))
    IN [i \in 1..Len(ks) |-> <<ks[i], MarshalValue(m[ks[i]], os)>>]

\* json.Marshal of *HTTPRequest and *HTTPResponse: null for nil, and an
\* empty header map is omitted
MarshalRequest(p, os) ==
    IF p = 0 THEN <<"null">>
    ELSE <<"obj", <<"method", reqs[p].Method>>, <<"path", reqs[p].Path>>>>
         \o (IF DOMAIN reqs[p].Headers = {} THEN <<>>
             ELSE <<(<<"headers", MarshalMap(reqs[p].Headers, os)>>)>>)
MarshalResponse(p, os) ==
    IF p = 0 THEN <<"null">>
    ELSE <<"obj", <<"status", resps[p].Status>>>>
         \o (IF DOMAIN resps[p].Headers = {} THEN <<>>
             ELSE <<(<<"headers", MarshalMap(resps[p].Headers, os)>>)>>)
\* json.Marshal of a TrailError: an empty code is omitted
MarshalError(e) ==
    <<(<<"source", e.Source>>), (<<"message", e.Message>>)>>
    \o (IF e.Code = "" THEN <<>> ELSE <<(<<"code", e.Code>>)>>)
MarshalStep(s) == <<(<<"name", s.Name>>), (<<"latency_ms", s.LatencyMs>>)>>
MarshalIntegration(g) ==
    <<(<<"type", g.Type>>), (<<"name", g.Name>>),
      (<<"latency_ms", g.LatencyMs>>)>>

\* a hash input without the previous hash
HashInputUnchained(tr, os) ==
    <<(<<"Timestamp", tr.Timestamp>>),
      (<<"TraceID", tr.TraceID>>),
      (<<"LatencyMs", tr.LatencyMs>>),
      (<<"Errors", [i \in 1..Len(tr.Errors) |-> MarshalError(tr.Errors[i])]>>),
      (<<"Metadata", MarshalMap(tr.Metadata, os)>>)>>
\* the bytes computeHashLocked hashes: json.Marshal(tmp)
HashInput(tr, os) ==
    <<(<<"Timestamp", tr.Timestamp>>),
      (<<"TraceID", tr.TraceID>>),
      (<<"RequestID", tr.RequestID>>),
      (<<"Service", tr.Service>>),
      (<<"Environment", tr.Environment>>),
      (<<"Request", MarshalRequest(tr.Request, os)>>),
      (<<"Response", MarshalResponse(tr.Response, os)>>),
      (<<"LatencyMs", tr.LatencyMs>>),
      (<<"InternalSteps", [i \in 1..Len(tr.InternalSteps) |->
                              MarshalStep(tr.InternalSteps[i])]>>),
      (<<"Integrations", [i \in 1..Len(tr.Integrations) |->
                             MarshalIntegration(tr.Integrations[i])]>>),
      (<<"Errors", [i \in 1..Len(tr.Errors) |-> MarshalError(tr.Errors[i])]>>),
      (<<"Metadata", MarshalMap(tr.Metadata, os)>>),
      (<<"PrevHash", tr.prevHash>>)>>

\* a digest salted with the number of calls made so far
computeHashSalted(tr, os) == Sha256Hex(<<HashInput(tr, os), calls>>)
computeHashLocked(tr, os) == Sha256Hex(HashInput(tr, os))

\* a call of operation name on Trail variable x that returns r
Call(name, x, r) ==
    /\ ~nilPanic
    /\ calls < callBudget
    /\ calls' = calls + 1
    /\ lastOp' = <<name, x>>
    /\ lastRet' = r
\* a method called on a nil *Trail locks t.mu through a nil pointer
NilDeref == nilPanic' = TRUE /\ UNCHANGED trail
heap == <<reqs, resps>>
sampling == <<samplingRate, draws, lastDraw>>

\* a draw equal to the rate rejects the Trail
SampledBelow(d, rate) == d < rate
\* rand.Float64() > cfg.SamplingRate is false: the Trail is built
Sampled(d, rate) == ~(d > rate)
\* a Trail that never refuses a write
NeverFrozen(tr) == FALSE
\* t.immutable: the Trail refuses Add* and SetMetadata
Frozen(tr) == tr.immutable

\* the Trail NewTrail returns when sampling keeps it
BuiltTrail(traceID) ==
    [NilTrail EXCEPT !.isNil = FALSE, !.Timestamp = now, !.TraceID = traceID,
                     !.RequestID = "req-1", !.Service = "unknown-service",
                     !.Environment = "development", !.startTime = now,
                     !.cfg = TRUE]

\* x = NewTrail(traceID, requestID, cfg)
NewTrail(x, traceID) ==
    /\ trail[x].isNil
    /\ Call("NewTrail", x, NoHash)
    /\ IF samplingRate < SampleSteps
       THEN \E d \in 0..(SampleSteps - 1) :
               /\ draws' = draws + 1
               /\ lastDraw' = d
               /\ trail' = IF Sampled(d, samplingRate)
                           THEN [trail EXCEPT ![x] = BuiltTrail(traceID)]
                           ELSE trail
       ELSE /\ trail' = [trail EXCEPT ![x] = BuiltTrail(traceID)]
            /\ UNCHANGED <<draws, lastDraw>>
    /\ UNCHANGED <<cfgImmutable, samplingRate, now, heap, nilPanic, callBudget>>
    /\ UNCHANGED <<bodyVars, asyncVars, maskVars, headerVars, lockVars, multiVars, argVars, writerVars, traceVars, tripVars>>

\* the step, integration and error values callers add
NewStep == [Name |-> "CreatePayment", LatencyMs |-> 0]
NewIntegration == [Type |-> "http", Name |-> "bank", LatencyMs |-> 0]
NewError(code) == [Source |-> "source", Message |-> "error message", Code |-> code]

\* what the bodies of the Trail methods do to a Trail that is not nil
WithRequest(tr, p) == [tr EXCEPT !.Request = p]
WithResponse(tr, p) == [tr EXCEPT !.Response = p]
WithInternalStep(tr) ==
    IF Frozen(tr) THEN tr ELSE [tr EXCEPT !.InternalSteps = Append(@, NewStep)]
\* an AddIntegration that records nothing
WithIntegrationLost(tr) == tr
WithIntegration(tr) ==
    IF Frozen(tr) THEN tr ELSE [tr EXCEPT !.Integrations = Append(@, NewIntegration)]
WithError(tr, code) ==
    IF Frozen(tr) THEN tr ELSE [tr EXCEPT !.Errors = Append(@, NewError(code))]
\* a key new to the map is laid out after the keys already there
WithMetadata(tr, key, value) ==
    IF Frozen(tr) THEN tr
    ELSE [tr EXCEPT !.Metadata = MapSet(@, key, value),
                    !.metaOrder = IF key \in Range(@) THEN @ ELSE Append(@, key)]
WithPrevHash(tr, prev) == [tr EXCEPT !.prevHash = prev]
\* the sequences of the model hold at most MaxItems elements
RoomFor(tr, field) == Frozen(tr) \/ Len(tr[field]) < MaxItems

\* x.SetRequest(req), req nil or a pointer to a request object
SetRequest(x, p) ==
    /\ Call("SetRequest", x, NoHash)
    /\ IF trail[x].isNil
       THEN NilDeref
       ELSE /\ trail' = [trail EXCEPT ![x] = WithRequest(trail[x], p)]
            /\ UNCHANGED nilPanic
    /\ UNCHANGED <<cfgImmutable, sampling, now, heap, callBudget>>
    /\ UNCHANGED <<bodyVars, asyncVars, maskVars, headerVars, lockVars, multiVars, argVars, writerVars, traceVars, tripVars>>

\* x.SetResponse(resp)
SetResponse(x, p) ==
    /\ Call("SetResponse", x, NoHash)
    /\ IF trail[x].isNil
       THEN NilDeref
       ELSE /\ trail' = [trail EXCEPT ![x] = WithResponse(trail[x], p)]
            /\ UNCHANGED nilPanic
    /\ UNCHANGED <<cfgImmutable, sampling, now, heap, callBudget>>
    /\ UNCHANGED <<bodyVars, asyncVars, maskVars, headerVars, lockVars, multiVars, argVars, writerVars, traceVars, tripVars>>

\* x.AddInternalStep(step)
AddInternalStep(x) ==
    /\ Call("AddInternalStep", x, NoHash)
    /\ IF trail[x].isNil
       THEN NilDeref
       ELSE /\ RoomFor(trail[x], "InternalSteps")
            /\ trail' = [trail EXCEPT ![x] = WithInternalStep(trail[x])]
            /\ UNCHANGED nilPanic
    /\ UNCHANGED <<cfgImmutable, sampling, now, heap, callBudget>>
    /\ UNCHANGED <<bodyVars, asyncVars, maskVars, headerVars, lockVars, multiVars, argVars, writerVars, traceVars, tripVars>>

\* x.AddIntegration(integration)
AddIntegration(x) ==
    /\ Call("AddIntegration", x, NoHash)
    /\ IF trail[x].isNil
       THEN NilDeref
       ELSE /\ RoomFor(trail[x], "Integrations")
            /\ trail' = [trail EXCEPT ![x] = WithIntegration(trail[x])]
            /\ UNCHANGED nilPanic
    /\ UNCHANGED <<cfgImmutable, sampling, now, heap, callBudget>>
    /\ UNCHANGED <<bodyVars, asyncVars, maskVars, headerVars, lockVars, multiVars, argVars, writerVars, traceVars, tripVars>>

\* x.AddError(source, message)
AddError(x) ==
    /\ Call("AddError", x, NoHash)
    /\ IF trail[x].isNil
       THEN NilDeref
       ELSE /\ RoomFor(trail[x], "Errors")
            /\ trail' = [trail EXCEPT ![x] = WithError(trail[x], "")]
            /\ UNCHANGED nilPanic
    /\ UNCHANGED <<cfgImmutable, sampling, now, heap, callBudget>>
    /\ UNCHANGED <<bodyVars, asyncVars, maskVars, headerVars, lockVars, multiVars, argVars, writerVars, traceVars, tripVars>>

\* x.AddErrorWithCode(source, message, code)
AddErrorWithCode(x, code) ==
    /\ Call("AddErrorWithCode", x, NoHash)
    /\ IF trail[x].isNil
       THEN NilDeref
       ELSE /\ RoomFor(trail[x], "Errors")
            /\ trail' = [trail EXCEPT ![x] = WithError(trail[x], code)]
            /\ UNCHANGED nilPanic
    /\ UNCHANGED <<cfgImmutable, sampling, now, heap, callBudget>>
    /\ UNCHANGED <<bodyVars, asyncVars, maskVars, headerVars, lockVars, multiVars, argVars, writerVars, traceVars, tripVars>>

\* x.SetMetadata(key, value)
SetMetadata(x, key, value) ==
    /\ Call("SetMetadata", x, NoHash)
    /\ IF trail[x].isNil
       THEN NilDeref
       ELSE /\ trail' = [trail EXCEPT ![x] = WithMetadata(trail[x], key, value)]
            /\ UNCHANGED nilPanic
    /\ UNCHANGED <<cfgImmutable, sampling, now, heap, callBudget>>
    /\ UNCHANGED <<bodyVars, asyncVars, maskVars, headerVars, lockVars, multiVars, argVars, writerVars, traceVars, tripVars>>

\* x.SetPrevHash(prev)
SetPrevHash(x, prev) ==
    /\ Call("SetPrevHash", x, NoHash)
    /\ IF trail[x].isNil
       THEN NilDeref
       ELSE /\ trail' = [trail EXCEPT ![x] = WithPrevHash(trail[x], prev)]
            /\ UNCHANGED nilPanic
    /\ UNCHANGED <<cfgImmutable, sampling, now, heap, callBudget>>
    /\ UNCHANGED <<bodyVars, asyncVars, maskVars, headerVars, lockVars, multiVars, argVars, writerVars, traceVars, tripVars>>

\* AddIntegrationToContext(ctx, integration), ctx made by WithTrail(ctx, x)
AddIntegrationToContext(x) ==
    /\ Call("AddIntegrationToContext", x, NoHash)
    /\ trail[x].isNil \/ RoomFor(trail[x], "Integrations")
    /\ trail' = IF trail[x].isNil THEN trail
                ELSE [trail EXCEPT ![x] = WithIntegration(trail[x])]
    /\ UNCHANGED nilPanic
    /\ UNCHANGED <<cfgImmutable, sampling, now, heap, callBudget>>
    /\ UNCHANGED <<bodyVars, asyncVars, maskVars, headerVars, lockVars, multiVars, argVars, writerVars, traceVars, tripVars>>

\* AddErrorToContext(ctx, source, message)
AddErrorToContext(x) ==
    /\ Call("AddErrorToContext", x, NoHash)
    /\ trail[x].isNil \/ RoomFor(trail[x], "Errors")
    /\ trail' = IF trail[x].isNil THEN trail
                ELSE [trail EXCEPT ![x] = WithError(trail[x], "")]
    /\ UNCHANGED nilPanic
    /\ UNCHANGED <<cfgImmutable, sampling, now, heap, callBudget>>
    /\ UNCHANGED <<bodyVars, asyncVars, maskVars, headerVars, lockVars, multiVars, argVars, writerVars, traceVars, tripVars>>

\* SetMetadataToContext(ctx, key, value)
SetMetadataToContext(x, key, value) ==
    /\ Call("SetMetadataToContext", x, NoHash)
    /\ trail' = IF trail[x].isNil THEN trail
                ELSE [trail EXCEPT ![x] = WithMetadata(trail[x], key, value)]
    /\ UNCHANGED nilPanic
    /\ UNCHANGED <<cfgImmutable, sampling, now, heap, callBudget>>
    /\ UNCHANGED <<bodyVars, asyncVars, maskVars, headerVars, lockVars, multiVars, argVars, writerVars, traceVars, tripVars>>

\* AddInternalStepToContext(ctx, step)
AddInternalStepToContext(x) ==
    /\ Call("AddInternalStepToContext", x, NoHash)
    /\ trail[x].isNil \/ RoomFor(trail[x], "InternalSteps")
    /\ trail' = IF trail[x].isNil THEN trail
                ELSE [trail EXCEPT ![x] = WithInternalStep(trail[x])]
    /\ UNCHANGED nilPanic
    /\ UNCHANGED <<cfgImmutable, sampling, now, heap, callBudget>>
    /\ UNCHANGED <<bodyVars, asyncVars, maskVars, headerVars, lockVars, multiVars, argVars, writerVars, traceVars, tripVars>>

\* x.ComputeHash()
ComputeHash(x) ==
    /\ ~trail[x].isNil
    /\ \E os \in IterOrders \X IterOrders :
          Call("ComputeHash", x, computeHashLocked(trail[x], os))
    /\ UNCHANGED <<trail, nilPanic>>
    /\ UNCHANGED <<cfgImmutable, sampling, now, heap, callBudget>>
    /\ UNCHANGED <<bodyVars, asyncVars, maskVars, headerVars, lockVars, multiVars, argVars, writerVars, traceVars, tripVars>>

\* a Finalize that freezes the Trail whatever the Config says
FinalizedFrozen(tr, os) ==
    LET t1 == [tr EXCEPT !.LatencyMs = now - tr.startTime, !.immutable = TRUE]
    IN [t1 EXCEPT !.Hash = computeHashLocked(t1, os)]
\* the hash is taken before the latency is stored
FinalizedHashFirst(tr, os) ==
    [tr EXCEPT !.Hash = computeHashLocked(tr, os),
               !.LatencyMs = now - tr.startTime,
               !.immutable = IF tr.cfg /\ cfgImmutable THEN TRUE ELSE @]
\* the Trail x.Finalize() leaves: latency, the immutable flag, then the hash
Finalized(tr, os) ==
    LET t1 == [tr EXCEPT !.LatencyMs = now - tr.startTime,
                         !.immutable = IF tr.cfg /\ cfgImmutable THEN TRUE ELSE @]
    IN [t1 EXCEPT !.Hash = computeHashLocked(t1, os)]

\* x.Finalize()
Finalize(x) ==
    /\ Call("Finalize", x, NoHash)
    /\ IF trail[x].isNil
       THEN NilDeref
       ELSE /\ \E os \in IterOrders \X IterOrders :
                  trail' = [trail EXCEPT ![x] = Finalized(trail[x], os)]
            /\ UNCHANGED nilPanic
    /\ UNCHANGED <<cfgImmutable, sampling, now, heap, callBudget>>
    /\ UNCHANGED <<bodyVars, asyncVars, maskVars, headerVars, lockVars, multiVars, argVars, writerVars, traceVars, tripVars>>

\* the Trail tr.Clone() returns; o is the order in which the range over
\* t.Metadata fills the new map
Cloned(tr, o) ==
    [NilTrail EXCEPT !.isNil = FALSE,
                     !.Timestamp = tr.Timestamp,
                     !.TraceID = tr.TraceID,
                     !.RequestID = tr.RequestID,
                     !.Service = tr.Service,
                     !.Environment = tr.Environment,
                     !.Request = tr.Request,
                     !.Response = tr.Response,
                     !.LatencyMs = tr.LatencyMs,
                     !.startTime = tr.startTime,
                     !.InternalSteps = tr.InternalSteps,
                     !.Integrations = tr.Integrations,
                     !.Errors = tr.Errors,
                     !.Metadata = tr.Metadata,
                     !.metaOrder = MapRange(tr.Metadata, o)]

\* y = x.Clone()
Clone(x, y) ==
    /\ x # y
    /\ trail[y].isNil
    /\ Call("Clone", x, NoHash)
    /\ IF trail[x].isNil
       THEN NilDeref
       ELSE /\ \E o \in IterOrders :
                  trail' = [trail EXCEPT ![y] = Cloned(trail[x], o)]
            /\ UNCHANGED nilPanic
    /\ UNCHANGED <<cfgImmutable, sampling, now, heap, callBudget>>
    /\ UNCHANGED <<bodyVars, asyncVars, maskVars, headerVars, lockVars, multiVars, argVars, writerVars, traceVars, tripVars>>

\* the header value a caller stores
HeaderValue == <<"s", "v1">>

\* x.Request.Headers[key] = value, by a holder of Trail x
SetRequestHeader(x, key) ==
    /\ ~trail[x].isNil
    /\ trail[x].Request # 0
    /\ Call("SetRequestHeader", x, NoHash)
    /\ reqs' = [reqs EXCEPT ![trail[x].Request].Headers =
                                MapSet(@, key, HeaderValue)]
    /\ UNCHANGED <<trail, nilPanic, resps>>
    /\ UNCHANGED <<cfgImmutable, sampling, now, callBudget>>
    /\ UNCHANGED <<bodyVars, asyncVars, maskVars, headerVars, lockVars, multiVars, argVars, writerVars, traceVars, tripVars>>

\* x.Response.Headers[key] = value, by a holder of Trail x
SetResponseHeader(x, key) ==
    /\ ~trail[x].isNil
    /\ trail[x].Response # 0
    /\ Call("SetResponseHeader", x, NoHash)
    /\ resps' = [resps EXCEPT ![trail[x].Response].Headers =
                                  MapSet(@, key, HeaderValue)]
    /\ UNCHANGED <<trail, nilPanic, reqs>>
    /\ UNCHANGED <<cfgImmutable, sampling, now, callBudget>>
    /\ UNCHANGED <<bodyVars, asyncVars, maskVars, headerVars, lockVars, multiVars, argVars, writerVars, traceVars, tripVars>>

\* a millisecond passes
Tick ==
    /\ ~nilPanic
    /\ now < MaxClock
    /\ now' = now + 1
    /\ UNCHANGED <<cfgImmutable, sampling, trail, heap, lastOp, lastRet,
                   nilPanic, calls, callBudget>>
    /\ UNCHANGED <<bodyVars, asyncVars, maskVars, headerVars, lockVars, multiVars, argVars, writerVars, traceVars, tripVars>>


\* a.Write(ctx, x) of a started AsyncSink: unless the sink is closed, the
\* Trail is cloned for the queue; y names the clone
SinkWrite(x, y) ==
    /\ x # y
    /\ trail[y].isNil
    /\ Call("Write", x, NoHash)
    /\ IF closed
       THEN UNCHANGED <<trail, nilPanic>>
       ELSE IF trail[x].isNil
            THEN NilDeref
            ELSE /\ \E o \in IterOrders :
                       trail' = [trail EXCEPT ![y] = Cloned(trail[x], o)]
                 /\ UNCHANGED nilPanic
    /\ UNCHANGED <<cfgImmutable, sampling, now, heap, callBudget>>
    /\ UNCHANGED <<bodyVars, asyncVars, maskVars, headerVars, lockVars, multiVars, argVars, writerVars, traceVars, tripVars>>

\* callers that hold Trail x and test it for nil before they use it
Held(x) == ~trail[x].isNil

\* the Trail variables in built hold a Trail NewTrail returned at time 0,
\* the others are nil; the callers make n calls
StartTrails(built, n) ==
    /\ now = 0
    /\ trail = [x \in TrailIds |->
                  IF x \in built THEN BuiltTrail("trace-1") ELSE NilTrail]
    /\ reqs = [p \in ReqIds |-> NewRequest]
    /\ resps = [p \in RespIds |-> NewResponse]
    /\ draws = 0
    /\ lastDraw = 0
    /\ lastOp = IF built = {} THEN <<"none", "t">> ELSE <<"NewTrail", "t">>
    /\ lastRet = NoHash
    /\ nilPanic = FALSE
    /\ calls = 0
    /\ callBudget = n

\* one Trail built without sampling
InitTrails ==
    /\ cfgImmutable \in BOOLEAN
    /\ samplingRate = SampleSteps
    /\ StartTrails({"t"}, MaxCalls)

\* one Trail and the operations on it
NextTrail ==
    \/ \E p \in {0} \cup ReqIds : Held("t") /\ SetRequest("t", p)
    \/ \E p \in {0} \cup RespIds : Held("t") /\ SetResponse("t", p)
    \/ Held("t") /\ AddInternalStep("t")
    \/ Held("t") /\ AddIntegration("t")
    \/ Held("t") /\ AddError("t")
    \/ \E code \in ErrorCodes : Held("t") /\ AddErrorWithCode("t", code)
    \/ \E k \in MetaKeys, v \in MetaValues : Held("t") /\ SetMetadata("t", k, v)
    \/ \E prev \in PrevHashes : Held("t") /\ SetPrevHash("t", prev)
    \/ ComputeHash("t")
    \/ Held("t") /\ Finalize("t")
    \/ \E k \in MetaKeys : SetRequestHeader("t", k)
    \/ \E k \in MetaKeys : SetResponseHeader("t", k)
    \/ Tick

\* two Trails built with the same arguments in the same millisecond,
\* under the default Immutable = false
InitPair ==
    /\ cfgImmutable = FALSE
    /\ samplingRate = SampleSteps
    /\ StartTrails(TrailIds, MaxPairCalls)

\* two Trails, each filled by its own sequence of operations
NextPair ==
    \/ \E x \in TrailIds, k \in MetaKeys, v \in MetaValues : SetMetadata(x, k, v)
    \/ \E x \in TrailIds, prev \in PrevHashes : SetPrevHash(x, prev)
    \/ \E x \in TrailIds : Finalize(x)
    \/ \E x \in TrailIds : ComputeHash(x)

\* one Trail that will be cloned
InitClone ==
    /\ cfgImmutable \in BOOLEAN
    /\ samplingRate = SampleSteps
    /\ StartTrails({"t"}, MaxCloneCalls)

\* a Trail, its clone, and the mutations of either
NextClone ==
    \/ Clone("t", "c")
    \/ \E x \in TrailIds, p \in {0} \cup ReqIds : Held(x) /\ SetRequest(x, p)
    \/ \E x \in TrailIds, p \in {0} \cup RespIds : Held(x) /\ SetResponse(x, p)
    \/ \E x \in TrailIds : Held(x) /\ AddInternalStep(x)
    \/ \E x \in TrailIds : Held(x) /\ AddIntegration(x)
    \/ \E x \in TrailIds : Held(x) /\ AddError(x)
    \/ \E x \in TrailIds, code \in ErrorCodes : Held(x) /\ AddErrorWithCode(x, code)
    \/ \E x \in TrailIds, k \in MetaKeys, v \in MetaValues :
          Held(x) /\ SetMetadata(x, k, v)
    \/ \E x \in TrailIds, k \in MetaKeys : SetRequestHeader(x, k)
    \/ \E x \in TrailIds, k \in MetaKeys : SetResponseHeader(x, k)

\* the operations that reach the Trail through the context
ContextHelpers == {"AddIntegrationToContext", "AddErrorToContext",
                   "SetMetadataToContext", "AddInternalStepToContext"}

\* a Config with any sampling rate up to 1.0, and no Trail yet
InitHandler ==
    /\ cfgImmutable \in BOOLEAN
    /\ samplingRate \in 0..SampleSteps
    /\ StartTrails({}, MaxHandlerCalls)

\* one unit of work: HTTPMiddleware.Handler, or code that calls NewTrail,
\* WithTrail, the context helpers and the sink itself
NextHandler ==
    \/ \E id \in TraceIDs : lastOp[1] = "none" /\ NewTrail("t", id)
    \/ \E p \in ReqIds : lastOp[1] = "NewTrail" /\ SetRequest("t", p)
    \/ lastOp[1] \in {"NewTrail", "SetRequest"} \cup ContextHelpers
          /\ AddIntegrationToContext("t")
    \/ lastOp[1] \in {"NewTrail", "SetRequest"} \cup ContextHelpers
          /\ AddErrorToContext("t")
    \/ \E k \in MetaKeys, v \in MetaValues :
          lastOp[1] \in {"NewTrail", "SetRequest"} \cup ContextHelpers
             /\ SetMetadataToContext("t", k, v)
    \/ lastOp[1] \in {"NewTrail", "SetRequest"} \cup ContextHelpers
          /\ AddInternalStepToContext("t")
    \/ \E p \in RespIds :
          lastOp[1] \in {"SetRequest"} \cup ContextHelpers /\ SetResponse("t", p)
    \/ lastOp[1] = "SetResponse" /\ Finalize("t")
    \/ lastOp[1] \in {"NewTrail", "Finalize"} \cup ContextHelpers
          /\ SinkWrite("t", "c")

\* ----------------------------------------------------------- package masker
\* strings.ToLower on the field names, keys and header names of the model
ToLower(s) ==
    CASE s \in {"Password", "PASSWORD"} -> "password"
      [] s \in {"Authorization", "AUTHORIZATION"} -> "authorization"
      [] s = "X-Test" -> "x-test"
      [] OTHER -> s

\* the fields New() masks, and its mask value
DefaultFields == {"password", "token", "secret", "api_key", "apikey",
                  "authorization", "credit_card", "creditcard", "cvv", "pin"}
DefaultMaskValue == "***MASKED***"
\* the lists passed to WithFields and the values passed to WithMaskValue
FieldLists == SUBSET {"PASSWORD", "token"}
MaskValues == {DefaultMaskValue, "[redacted]"}

\* values of type any as json.Unmarshal builds them: nil, a string, a
\* float64, a map[string]any <<"m", map>> or a []any <<"a", sequence>>
Null == <<"null">>
Str(s) == <<"s", s>>
Num(n) == <<"n", n>>
Scalars == {Str("secret"), Num(150000)}
BodyKeys == {"Password", "token", "amount"}
IsMap(v) == v[1] = "m"
IsSlice(v) == v[1] = "a"
\* map[string]any{k: v} and map[string]any{"amount": 150000, k: v}
Obj(k, v) == <<"m", [j \in {k} |-> v]>>
ObjWithAmount(k, v) ==
    <<"m", [j \in {"amount", k} |-> IF j = k THEN v ELSE Num(150000)]>>
\* the values nested at most d deep that the callers mask
RECURSIVE ValuesOfDepth(_)
ValuesOfDepth(d) ==
    IF d = 0 THEN Scalars
    ELSE LET V == ValuesOfDepth(d - 1)
         IN  V \cup {Obj(k, v) : k \in BodyKeys, v \in V}
               \cup {ObjWithAmount(k, v) : k \in BodyKeys \ {"amount"}, v \in V}
               \cup {<<"a", <<v>>>> : v \in V}
               \cup {<<"a", <<Str("secret"), v>>>> : v \in V}

\* the Masker a caller holds
masker == [fields |-> fields, maskValue |-> maskValue, enabled |-> enabled]

\* m.ShouldMask(field)
ShouldMask(m, field) ==
    IF ~m.enabled THEN FALSE ELSE ToLower(field) \in m.fields

\* m.MaskMap(data) and m.MaskSlice(data) of data that is not nil
RECURSIVE MaskMap(_, _), MaskSlice(_, _)
\* a MaskMap that leaves nested values as they are
MaskMapShallow(m, d) ==
    IF ~m.enabled THEN d
    ELSE <<"m", [k \in DOMAIN d[2] |->
                   IF ShouldMask(m, k) THEN Str(m.maskValue) ELSE d[2][k]]>>
MaskMap(m, d) ==
    IF ~m.enabled THEN d
    ELSE <<"m", [k \in DOMAIN d[2] |->
                   IF ShouldMask(m, k) THEN Str(m.maskValue)
                   ELSE IF IsMap(d[2][k]) THEN MaskMap(m, d[2][k])
                   ELSE IF IsSlice(d[2][k]) THEN MaskSlice(m, d[2][k])
                   ELSE d[2][k]]>>
\* a MaskSlice that masks the strings of the sequence as well
MaskSliceStrings(m, d) ==
    IF ~m.enabled THEN d
    ELSE <<"a", [i \in 1..Len(d[2]) |->
                   IF d[2][i][1] = "s" THEN Str(m.maskValue) ELSE d[2][i]]>>
MaskSlice(m, d) ==
    IF ~m.enabled THEN d
    ELSE <<"a", [i \in 1..Len(d[2]) |->
                   IF IsMap(d[2][i]) THEN MaskMap(m, d[2][i])
                   ELSE IF IsSlice(d[2][i]) THEN MaskSlice(m, d[2][i])
                   ELSE d[2][i]]>>

\* m.maskAny(v)
maskAny(m, v) ==
    IF IsMap(v) THEN MaskMap(m, v)
    ELSE IF IsSlice(v) THEN MaskSlice(m, v)
    ELSE v

\* the captured bodies: the bytes json.Unmarshal accepts, with the value it
\* builds from them, and bytes it rejects
JSONValue ==
    [b \in {"{\"password\":\"secret\",\"amount\":150000}", "\"ok\""} |->
        IF b = "\"ok\"" THEN Str("ok")
        ELSE <<"m", [k \in {"password", "amount"} |->
                       IF k = "password" THEN Str("secret") ELSE Num(150000)]>>]
Malformed == {"not json", " {oops "}
Bodies == {""} \cup DOMAIN JSONValue \cup Malformed
\* bytes.TrimSpace
TrimSpace(b) == IF b = " {oops " THEN "{oops" ELSE b
\* a []byte handed to the capture functions
Bytes(b) == <<"bytes", b>>
IsBytes(v) == v[1] = "bytes"

\* m.ParseAndMaskJSON(data): the value and whether the error is non-nil
ParseAndMaskJSON(m, b) ==
    IF b = "" THEN <<Null, FALSE>>
    ELSE IF b \notin DOMAIN JSONValue THEN <<Null, TRUE>>
    ELSE IF ~m.enabled THEN <<JSONValue[b], FALSE>>
    ELSE <<maskAny(m, JSONValue[b]), FALSE>>

\* parseJSON(data) of the middlewares
parseJSON(b) ==
    IF b = "" THEN <<Null, FALSE>>
    ELSE IF b \notin DOMAIN JSONValue THEN <<Str(b), FALSE>>
    ELSE <<JSONValue[b], FALSE>>

\* parseAndMaskJSON(msk, data) of the round tripper, msk not nil
parseAndMaskJSON(m, b) ==
    IF b = "" THEN Null
    ELSE IF ~ParseAndMaskJSON(m, b)[2] THEN ParseAndMaskJSON(m, b)[1]
    ELSE IF b \notin DOMAIN JSONValue THEN Str(TrimSpace(b))
    ELSE JSONValue[b]

\* no Masker is built and nothing is masked
NoMasking == masking = <<>>

\* masker.New(WithFields(..), WithMaskValue(..), WithEnabled(..)), each
\* option given or left out, and the value or the bytes the caller holds
InitMasker ==
    masking \in
        [fields : {DefaultFields} \cup {{ToLower(f) : f \in fs} : fs \in FieldLists},
         maskValue : MaskValues,
         enabled : BOOLEAN,
         input : ValuesOfDepth(MaxDepth) \cup {Bytes(b) : b \in Bodies},
         output : {<<>>},
         maskOp : {<<"New">>}]

\* out = m.MaskMap(input)
ApplyMaskMap ==
    /\ IsMap(input)
    /\ masking' = [masking EXCEPT !.output = MaskMap(masker, input),
                                  !.maskOp = <<"MaskMap">>]
    /\ UNCHANGED <<bodyVars, asyncVars, trailVars, headerVars, lockVars, multiVars, argVars, writerVars, traceVars, tripVars>>

\* out = m.MaskSlice(input)
ApplyMaskSlice ==
    /\ IsSlice(input)
    /\ masking' = [masking EXCEPT !.output = MaskSlice(masker, input),
                                  !.maskOp = <<"MaskSlice">>]
    /\ UNCHANGED <<bodyVars, asyncVars, trailVars, headerVars, lockVars, multiVars, argVars, writerVars, traceVars, tripVars>>

\* out, err = m.ParseAndMaskJSON(input)
ApplyParseAndMaskJSON ==
    /\ IsBytes(input)
    /\ masking' = [masking EXCEPT
                      !.output = ParseAndMaskJSON(masker, input[2])[1],
                      !.maskOp = <<"ParseAndMaskJSON",
                                   ParseAndMaskJSON(masker, input[2])[2]>>]
    /\ UNCHANGED <<bodyVars, asyncVars, trailVars, headerVars, lockVars, multiVars, argVars, writerVars, traceVars, tripVars>>

\* the body capture of HTTPMiddleware.Handler, GinMiddleware.Handler and
\* StandardHTTPMiddleware, for the request and for the response: input holds
\* the bytes read, output the Body stored in the Trail
MiddlewareCapture(enableMasking) ==
    /\ IsBytes(input)
    /\ input[2] # ""
    /\ masking' = [masking EXCEPT
                      !.output = IF enableMasking
                                 THEN ParseAndMaskJSON(masker, input[2])[1]
                                 ELSE parseJSON(input[2])[1],
                      !.maskOp = <<"middleware", enableMasking>>]
    /\ UNCHANGED <<bodyVars, asyncVars, trailVars, headerVars, lockVars, multiVars, argVars, writerVars, traceVars, tripVars>>

\* the body capture of HTTPRoundTripper.RoundTrip
RoundTripCapture ==
    /\ IsBytes(input)
    /\ masking' = [masking EXCEPT !.output = parseAndMaskJSON(masker, input[2]),
                                  !.maskOp = <<"roundtrip">>]
    /\ UNCHANGED <<bodyVars, asyncVars, trailVars, headerVars, lockVars, multiVars, argVars, writerVars, traceVars, tripVars>>

\* one Masker, the values it masks and the bodies captured through it
NextMasker ==
    \/ ApplyMaskMap
    \/ ApplyMaskSlice
    \/ ApplyParseAndMaskJSON
    \/ \E enableMasking \in BOOLEAN : MiddlewareCapture(enableMasking)
    \/ RoundTripCapture

\* ----------------------------------------------------------- package header
\* the header names of the model, in a fixed order
HeaderOrder == <<"Authorization", "X-Test", "cookie">>
HeaderNames == Range(HeaderOrder)
\* the value lists of the source headers: the first strings of HeaderStrings
HeaderStrings == <<"Bearer abc", "ok", "v3", "v4">>
ValueLists == {SubSeq(HeaderStrings, 1, n) : n \in 0..MaxValues}
\* the source header maps
SourceHeaders == UNION {[ks -> ValueLists] : ks \in SUBSET HeaderNames}

\* the deny-list and the mask value of NewFilter()
DefaultExcludeHeaders == {"authorization", "cookie", "set-cookie", "x-api-key"}
\* the lists passed to WithExcludeHeaders and WithIncludeHeaders; <<"unset">>
\* is a NewFilter call without the option
ExcludeOptions == {<<"unset">>, <<"with", {}>>, <<"with", {"X-Test"}>>}
IncludeOptions == {<<"unset">>, <<"with", {}>>, <<"with", {"AUTHORIZATION"}>>,
                   <<"with", {"Authorization", "X-Test"}>>}

\* header.NewFilter(WithExcludeHeaders(..), WithIncludeHeaders(..)):
\* includeHeaders stays nil unless WithIncludeHeaders is given
NewFilter(ex, inc) ==
    [excludeHeaders |-> IF ex[1] = "unset" THEN DefaultExcludeHeaders
                        ELSE {ToLower(h) : h \in ex[2]},
     includeNil |-> inc[1] = "unset",
     includeHeaders |-> IF inc[1] = "unset" THEN {}
                        ELSE {ToLower(h) : h \in inc[2]},
     maskValue |-> DefaultMaskValue]

\* a nil map[string][]string; a map that is not nil gives each key the
\* address of its []string in slices
NilHeaders == [isNil |-> TRUE, m |-> EmptyMap]
\* the place of header name k in HeaderOrder, and among the names ks
Index(k) == CHOOSE i \in 1..Len(HeaderOrder) : HeaderOrder[i] = k
Rank(k, ks) == Cardinality({j \in 1..Index(k) : HeaderOrder[j] \in ks})
KeyOfRank(i, ks) == CHOOSE k \in ks : Rank(k, ks) = i
\* the lists vals (one per key) laid out after the slices ss
Allocated(vals, ss) ==
    [isNil |-> FALSE,
     m |-> [k \in DOMAIN vals |-> Len(ss) + Rank(k, DOMAIN vals)]]
WithSlices(vals, ss) ==
    ss \o [i \in 1..Cardinality(DOMAIN vals) |->
               vals[KeyOfRank(i, DOMAIN vals)]]
\* the value lists a header map holds
Contents(h, ss) == [k \in DOMAIN h.m |-> ss[h.m[k]]]

\* the keys Filter lets through
KeptAll(f, m) == DOMAIN m
Kept(f, m) ==
    {k \in DOMAIN m : f.includeNil \/ ToLower(k) \in f.includeHeaders}
\* a deny-list looked up with the key as it is spelled
ExcludedAsSpelled(f, key) == key \in f.excludeHeaders
\* f.excludeHeaders[lowerKey]
Excluded(f, key) == ToLower(key) \in f.excludeHeaders
\* a Filter that stores the source's own value lists
FilterAliased(f, h, ss) ==
    IF h.isNil THEN [result |-> NilHeaders, slices |-> ss]
    ELSE LET masked == [k \in {j \in Kept(f, h.m) : Excluded(f, j)} |->
                          <<f.maskValue>>]
         IN  [result |-> [isNil |-> FALSE,
                          m |-> [k \in Kept(f, h.m) |->
                                   IF k \in DOMAIN masked
                                   THEN Allocated(masked, ss).m[k]
                                   ELSE h.m[k]]],
              slices |-> WithSlices(masked, ss)]
\* f.Filter(headers): the map returned and the slices after the call
Filter(f, h, ss) ==
    IF h.isNil THEN [result |-> NilHeaders, slices |-> ss]
    ELSE LET vals == [k \in Kept(f, h.m) |->
                        IF Excluded(f, k) THEN <<f.maskValue>>
                        ELSE ss[h.m[k]]]
         IN  [result |-> Allocated(vals, ss),
              slices |-> WithSlices(vals, ss)]

\* no Filter is built and no header map exists
NoFilter == filtering = <<>>

\* a Filter built by NewFilter and a source header map, nil or not
InitFilter ==
    \E ex \in ExcludeOptions, inc \in IncludeOptions,
       hs \in {<<>>} \cup {<<h>> : h \in SourceHeaders} :
        filtering =
            [headerFilter |-> NewFilter(ex, inc),
             headers |-> IF hs = <<>> THEN NilHeaders ELSE Allocated(hs[1], <<>>),
             slices |-> IF hs = <<>> THEN <<>> ELSE WithSlices(hs[1], <<>>),
             result |-> NilHeaders,
             filterOp |-> <<"NewFilter">>,
             mutations |-> 0]

\* result = f.Filter(headers)
ApplyFilter ==
    /\ Len(slices) + Cardinality(DOMAIN headers.m) <= MaxSlices
    /\ filtering' = [filtering EXCEPT
                        !.result = Filter(headerFilter, headers, slices).result,
                        !.slices = Filter(headerFilter, headers, slices).slices,
                        !.filterOp = <<"Filter">>]
    /\ UNCHANGED <<bodyVars, asyncVars, trailVars, maskVars, lockVars, multiVars, argVars, writerVars, traceVars, tripVars>>

\* h[k][i] = "changed" on header map h: the call can be made, and the slices
\* after it
CanSetValue(h, k, i) ==
    /\ mutations < MaxMutations
    /\ k \in DOMAIN h.m
    /\ i \in 1..Len(slices[h.m[k]])
SetValue(h, k, i) == [slices EXCEPT ![h.m[k]][i] = "changed"]

\* delete(h, k) on header map h
Deleted(h, k) == [h EXCEPT !.m = [j \in DOMAIN h.m \ {k} |-> h.m[j]]]

\* the source header map is written to after it was filtered
SetSourceValue(k, i) ==
    /\ CanSetValue(headers, k, i)
    /\ filtering' = [filtering EXCEPT !.slices = SetValue(headers, k, i),
                                      !.mutations = @ + 1,
                                      !.filterOp = <<"SetSourceValue", k>>]
    /\ UNCHANGED <<bodyVars, asyncVars, trailVars, maskVars, lockVars, multiVars, argVars, writerVars, traceVars, tripVars>>

\* delete(headers, k) after filtering
DeleteSource(k) ==
    /\ mutations < MaxMutations
    /\ k \in DOMAIN headers.m
    /\ filtering' = [filtering EXCEPT !.headers = Deleted(headers, k),
                                      !.mutations = @ + 1,
                                      !.filterOp = <<"DeleteSource", k>>]
    /\ UNCHANGED <<bodyVars, asyncVars, trailVars, maskVars, lockVars, multiVars, argVars, writerVars, traceVars, tripVars>>

\* the filtered map is written to
SetResultValue(k, i) ==
    /\ CanSetValue(result, k, i)
    /\ filtering' = [filtering EXCEPT !.slices = SetValue(result, k, i),
                                      !.mutations = @ + 1,
                                      !.filterOp = <<"SetResultValue", k>>]
    /\ UNCHANGED <<bodyVars, asyncVars, trailVars, maskVars, lockVars, multiVars, argVars, writerVars, traceVars, tripVars>>

\* delete(result, k)
DeleteResult(k) ==
    /\ mutations < MaxMutations
    /\ k \in DOMAIN result.m
    /\ filtering' = [filtering EXCEPT !.result = Deleted(result, k),
                                      !.mutations = @ + 1,
                                      !.filterOp = <<"DeleteResult", k>>]
    /\ UNCHANGED <<bodyVars, asyncVars, trailVars, maskVars, lockVars, multiVars, argVars, writerVars, traceVars, tripVars>>

\* one Filter, one source header map and the map filtered from it
NextFilter ==
    \/ ApplyFilter
    \/ \E k \in HeaderNames, i \in 1..MaxValues : SetSourceValue(k, i)
    \/ \E k \in HeaderNames : DeleteSource(k)
    \/ \E k \in HeaderNames, i \in 1..MaxValues : SetResultValue(k, i)
    \/ \E k \in HeaderNames : DeleteResult(k)

\* ------------------------------------------- concurrent recorders on a Trail
\* the goroutines that record on the one Trail t, and the methods they call
Recorders == {"r1", "r2"}
RecorderOps == {"AddInternalStep", "AddIntegration", "AddError"}
\* the field of the Trail each method appends to
FieldOf(op) ==
    CASE op = "AddInternalStep" -> "InternalSteps"
      [] op = "AddIntegration" -> "Integrations"
      [] op = "AddError" -> "Errors"
\* the value recorder r passes to its i-th call: it names the call
ItemOf(op, r, i) ==
    CASE op = "AddInternalStep" -> [Name |-> <<r, i>>, LatencyMs |-> 0]
      [] op = "AddIntegration" -> [Type |-> "http", Name |-> <<r, i>>, LatencyMs |-> 0]
      [] op = "AddError" -> [Source |-> <<r, i>>, Message |-> "error message", Code |-> ""]
\* a recorder that is in no call and has made none
IdleRecorder == [pc |-> "idle", op |-> "", old |-> <<>>, done |-> <<>>]

\* no goroutine records
NoRecorders == recording = <<>>

\* the Trail t is built, not finalized, and the recorders hold it
InitRecorders ==
    /\ cfgImmutable = FALSE
    /\ samplingRate = SampleSteps
    /\ StartTrails({"t"}, 0)
    /\ recording = [mu |-> "free", rec |-> [r \in Recorders |-> IdleRecorder]]

\* what the recorder steps leave alone
recFrame == <<cfgImmutable, sampling, now, heap, lastOp, lastRet, nilPanic,
              calls, callBudget>>

\* a mutex that lets every goroutine in
LockNeverHeld(r) == TRUE
\* t.mu.Lock() returns only while no other goroutine holds the mutex
LockFree(r) == mu = "free"

\* recorder r calls op on t and takes t.mu
RecLock(r, op) ==
    /\ rec[r].pc = "idle"
    /\ Len(rec[r].done) < MaxRecCalls
    /\ LockFree(r)
    /\ recording' = [recording EXCEPT !.mu = r, !.rec[r].pc = "locked",
                                      !.rec[r].op = op]
    /\ UNCHANGED <<trail, recFrame>>
    /\ UNCHANGED <<bodyVars, asyncVars, maskVars, headerVars, multiVars, argVars, writerVars, traceVars, tripVars>>

\* if t.immutable { return }; otherwise append reads the slice
RecLoad(r) ==
    /\ rec[r].pc = "locked"
    /\ recording' = [recording EXCEPT
                        !.rec[r].pc = IF Frozen(trail["t"]) THEN "return"
                                      ELSE "loaded",
                        !.rec[r].old = trail["t"][FieldOf(rec[r].op)]]
    /\ UNCHANGED <<trail, recFrame>>
    /\ UNCHANGED <<bodyVars, asyncVars, maskVars, headerVars, multiVars, argVars, writerVars, traceVars, tripVars>>

\* t.X = append(t.X, item) writes the slice read, one element longer
RecStore(r) ==
    /\ rec[r].pc = "loaded"
    /\ trail' = [trail EXCEPT !["t"][FieldOf(rec[r].op)] =
                    Append(rec[r].old,
                           ItemOf(rec[r].op, r, Len(rec[r].done) + 1))]
    /\ recording' = [recording EXCEPT !.rec[r].pc = "return",
                                      !.rec[r].old = <<>>]
    /\ UNCHANGED recFrame
    /\ UNCHANGED <<bodyVars, asyncVars, maskVars, headerVars, multiVars, argVars, writerVars, traceVars, tripVars>>

\* the deferred t.mu.Unlock(), and the call returns
RecUnlock(r) ==
    /\ rec[r].pc = "return"
    /\ recording' = [recording EXCEPT
                        !.mu = "free", !.rec[r].pc = "idle", !.rec[r].op = "",
                        !.rec[r].old = <<>>,
                        !.rec[r].done = Append(@, rec[r].op)]
    /\ UNCHANGED <<trail, recFrame>>
    /\ UNCHANGED <<bodyVars, asyncVars, maskVars, headerVars, multiVars, argVars, writerVars, traceVars, tripVars>>

\* the recorders, each making its calls one after the other
NextRecorders ==
    \/ \E r \in Recorders, op \in RecorderOps : RecLock(r, op)
    \/ \E r \in Recorders : RecLoad(r)
    \/ \E r \in Recorders : RecStore(r)
    \/ \E r \in Recorders : RecUnlock(r)

\* ------------------------------------------------------------- package sink
\* no error, and the error member i's Write or Close returns when it fails
NoError == <<>>
ErrorOf(i) == <<"err", i>>

\* no MultiSink is built
NoMultiSink == multi = <<>>

\* NewMultiSink(sinks...) over any number of member sinks
InitMultiSink ==
    \E n \in 0..MaxSinks :
        multi = [sinks |-> n, multiOp |-> "idle", multiIdx |-> 0,
                 lastErr |-> NoError, memberCalls |-> <<>>,
                 multiRet |-> <<"none">>, multiCalls |-> 0]

\* m.Write(ctx, trail) or m.Close() is called: var lastErr error
MultiCall(op) ==
    /\ multiOp = "idle"
    /\ multiCalls < MaxMultiCalls
    /\ multi' = [multi EXCEPT !.multiOp = op, !.multiIdx = 1,
                              !.lastErr = NoError, !.memberCalls = <<>>,
                              !.multiRet = <<"none">>, !.multiCalls = @ + 1]
    /\ UNCHANGED <<bodyVars, asyncVars, trailVars, maskVars, headerVars, lockVars, argVars, writerVars, traceVars, tripVars>>

\* if err := s.Write(ctx, trail); err != nil { lastErr = err }
KeepLastErr(err) == IF err # NoError THEN err ELSE lastErr

\* one round of the loop: the next member's Write (Close) returns, failing
\* or not
MemberReturns(failed) ==
    /\ multiOp \in {"Write", "Close"}
    /\ multiIdx <= sinks
    /\ multi' = [multi EXCEPT
                    !.memberCalls = Append(@, <<multiOp, multiIdx, failed>>),
                    !.lastErr = KeepLastErr(IF failed THEN ErrorOf(multiIdx)
                                            ELSE NoError),
                    !.multiIdx = @ + 1]
    /\ UNCHANGED <<bodyVars, asyncVars, trailVars, maskVars, headerVars, lockVars, argVars, writerVars, traceVars, tripVars>>

\* the loop is over: return lastErr
MultiReturn ==
    /\ multiOp \in {"Write", "Close"}
    /\ multiIdx > sinks
    /\ multi' = [multi EXCEPT !.multiRet = <<multiOp, lastErr>>,
                              !.multiOp = "idle"]
    /\ UNCHANGED <<bodyVars, asyncVars, trailVars, maskVars, headerVars, lockVars, argVars, writerVars, traceVars, tripVars>>

\* one MultiSink and the calls made on it
NextMultiSink ==
    \/ \E op \in {"Write", "Close"} : MultiCall(op)
    \/ \E failed \in BOOLEAN : MemberReturns(failed)
    \/ MultiReturn

\* ------------------------------------------------- HTTPMiddleware.Handler
\* the Config of the middleware, with any sampling rate, and a request that
\* has arrived
InitMiddleware ==
    /\ cfgImmutable \in BOOLEAN
    /\ samplingRate \in 0..SampleSteps
    /\ StartTrails({}, MaxMiddlewareCalls)

\* the wrapped handler is running: next.ServeHTTP was entered after
\* SetRequest and has not returned
InHandler == lastOp[1] \in {"SetRequest"} \cup ContextHelpers

\* HTTPMiddleware.Handler serving one request, statement by statement; the
\* wrapped handler records through the context
NextMiddleware ==
    \/ \E id \in TraceIDs : lastOp[1] = "none" /\ NewTrail("t", id)
    \/ \E p \in ReqIds : lastOp[1] = "NewTrail" /\ SetRequest("t", p)
    \/ InHandler /\ AddIntegrationToContext("t")
    \/ InHandler /\ AddErrorToContext("t")
    \/ \E k \in MetaKeys, v \in MetaValues :
          InHandler /\ SetMetadataToContext("t", k, v)
    \/ InHandler /\ AddInternalStepToContext("t")
    \/ \E p \in RespIds : InHandler /\ SetResponse("t", p)
    \/ lastOp[1] = "SetResponse" /\ Finalize("t")
    \/ lastOp[1] = "Finalize" /\ SinkWrite("t", "c")

\* ------------------------------------------- the order of the workers' calls
\* the worker's loop taken line by line: between the receive of line 78 and
\* the sink.Write call of line 79 other workers run

\* a receive that takes the newest trail of the queue
WorkerReceiveNewest(k) ==
    /\ ~panicked
    /\ kpc[k] = "range"
    /\ queue # <<>>
    /\ queue' = SubSeq(queue, 1, Len(queue) - 1)
    /\ kpc' = [kpc EXCEPT ![k] = "took"]
    /\ ktrail' = [ktrail EXCEPT ![k] = queue[Len(queue)]]
    /\ UNCHANGED <<config, closed, qClosed, panicked, nextId, wpc, wtrail, wctx,
                   cpc, enqueued, ret, queueCloses, sinkSide>>
    /\ UNCHANGED <<bodyVars, trailVars, maskVars, headerVars, lockVars, multiVars, argVars, writerVars, traceVars, tripVars>>

\* worker, line 78: for trail := range a.queue receives the oldest trail
WorkerReceive(k) ==
    /\ ~panicked
    /\ kpc[k] = "range"
    /\ queue # <<>>
    /\ queue' = Tail(queue)
    /\ kpc' = [kpc EXCEPT ![k] = "took"]
    /\ ktrail' = [ktrail EXCEPT ![k] = Head(queue)]
    /\ UNCHANGED <<config, closed, qClosed, panicked, nextId, wpc, wtrail, wctx,
                   cpc, enqueued, ret, queueCloses, sinkSide>>
    /\ UNCHANGED <<bodyVars, trailVars, maskVars, headerVars, lockVars, multiVars, argVars, writerVars, traceVars, tripVars>>

\* worker, line 79: a.sink.Write(context.Background(), trail) is called
WorkerDeliver(k) ==
    /\ ~panicked
    /\ kpc[k] = "took"
    /\ kpc' = [kpc EXCEPT ![k] = "write"]
    /\ sinkWrites' = Append(sinkWrites, ktrail[k])
    /\ UNCHANGED <<config, closed, queue, qClosed, panicked, nextId, wpc, wtrail,
                   wctx, ktrail, cpc, enqueued, ret, queueCloses, sinkErrs,
                   errCalls, sinkCloses>>
    /\ UNCHANGED <<bodyVars, trailVars, maskVars, headerVars, lockVars, multiVars, argVars, writerVars, traceVars, tripVars>>

\* NewAsyncSink(s, queueSize, opts...) without an error callback
InitDelivery ==
    /\ queueSize \in 1..MaxQueue
    /\ workers \in 1..MaxWorkers
    /\ dropOnFull \in BOOLEAN
    /\ onError = FALSE
    /\ budget = MaxWrites
    /\ Started

\* the pipeline with the workers' receive and sink.Write call as two steps,
\* for callers whose contexts are never cancelled
NextOrder ==
    \/ \E w \in Writers : WriteCheck(w, "live")
    \/ \E w \in Writers : WriteSend(w)
    \/ \E w \in Writers : WriteDrop(w)
    \/ \E w \in Writers : WritePanic(w)
    \/ \E k \in 1..MaxWorkers : WorkerReceive(k)
    \/ \E k \in 1..MaxWorkers : WorkerDeliver(k)
    \/ \E k \in 1..MaxWorkers, err \in BOOLEAN : WorkerWritten(k, err)
    \/ \E k \in 1..MaxWorkers : WorkerExit(k)
    \/ \E c \in Closers : CloseCheck(c)
    \/ \E c \in Closers : CloseQueue(c)
    \/ \E c \in Closers : CloseSink(c)

\* -------------------------------------------- NewAsyncSink and its arguments
\* no NewAsyncSink call with recorded arguments
NoSinkArgs == newSinkArgs = <<>>

\* the queue NewAsyncSink makes when queueSize <= 0
DefaultQueueSize == 1000
\* a queue made with the size as it is given
QueueCapacityAsGiven(n) == n
\* NewAsyncSink, lines 51-53 and 57: cap(a.queue)
QueueCapacity(n) == IF n <= 0 THEN DefaultQueueSize ELSE n
\* workers: 1, then WithWorkers(n) stores n when n > 0
WorkerCount(n) == IF n > 0 THEN n ELSE 1

\* NewAsyncSink(s, queueSize, WithWorkers(n), WithDropOnFull(..)) with any
\* arguments, zero and a negative one included
InitSized ==
    /\ newSinkArgs \in [queueSize : {0 - MaxBelow, 0} \cup 1..MaxQueue,
                        workers : {0 - MaxBelow, 0} \cup 1..MaxWorkers]
    /\ queueSize = QueueCapacity(newSinkArgs.queueSize)
    /\ workers = WorkerCount(newSinkArgs.workers)
    /\ dropOnFull \in BOOLEAN
    /\ onError = FALSE
    /\ budget = MaxWrites
    /\ Started

\* ------------------------------- responseWriter.Write, ginResponseWriter.Write
\* no responseWriter was built
NoWriter == rw = <<>>

\* a capture that appends the whole data while the buffer is below maxSize
CapturedWhole(body, max, dat) ==
    IF Len(body) < max THEN body \o dat ELSE body

\* w.body after the capture of data, lines 310-317 (gin: 168-175)
Captured(body, max, dat) ==
    IF Len(body) < max
    THEN LET remaining == max - Len(body)
         IN  IF Len(dat) <= remaining
             THEN body \o dat
             ELSE body \o SubSeq(dat, 1, remaining)
    ELSE body

\* &responseWriter{body: &bytes.Buffer{}, maxSize: cfg.MaxResponseBodySize}
InitWriter ==
    rw \in [maxSize : 0..MaxCeiling, body : {<<>>}, given : {<<>>},
            forwarded : {<<>>}, calls : {0}]

\* Write(data): capture, then return w.ResponseWriter.Write(data)
ResponseWrite(dat) ==
    /\ rw.calls < MaxRespWrites
    /\ rw' = [rw EXCEPT !.body = Captured(rw.body, rw.maxSize, dat),
                        !.given = rw.given \o dat,
                        !.forwarded = rw.forwarded \o dat,
                        !.calls = rw.calls + 1]
    /\ UNCHANGED <<bodyVars, asyncVars, trailVars, maskVars, headerVars, lockVars, multiVars, argVars, traceVars, tripVars>>

NextWriter == \E dat \in SeqsUpTo(Byte, MaxChunk) : ResponseWrite(dat)

\* ------------------------------------------- StartStep, EndStep and TraceStep
\* no TraceStep caller exists
NoTracing == tracing = <<>>

\* a nil interface value, the values fn takes and returns, and its errors
NilAny == <<"nil">>
StepNames == {"CreatePayment", "ChargeCard"}
StepValues == {NilAny, <<"value", "payload">>}
StepErrors == {NilAny, <<"error", "card declined">>}
\* err.Error()
ErrorText(err) == err[2]

\* StartStep(name, req, resp) called at time t
StartStep(name, req, resp, t) ==
    [Name |-> name, Request |-> req, Response |-> resp, StartTime |-> t,
     LatencyMs |-> 0, Error |-> ""]

\* an EndStep that leaves the Error field empty
EndStepNoError(step, resp, err, t) ==
    [step EXCEPT !.LatencyMs = t - step.StartTime,
                 !.Response = IF resp # NilAny THEN resp ELSE @]

\* EndStep(&step, resp, err) called at time t
EndStep(step, resp, err, t) ==
    [step EXCEPT !.LatencyMs = t - step.StartTime,
                 !.Response = IF resp # NilAny THEN resp ELSE @,
                 !.Error = IF err # NilAny THEN ErrorText(err) ELSE @]

\* t.AddInternalStep(step)
WithStep(tr, step) ==
    IF Frozen(tr) THEN tr ELSE [tr EXCEPT !.InternalSteps = Append(@, step)]

\* AddInternalStepToContext(ctx, step): nothing without a Trail in ctx
StepInContext(tr, step) == IF tr.isNil THEN tr ELSE WithStep(tr, step)

\* a context with or without a Trail, and no TraceStep call under way
InitTracing ==
    /\ cfgImmutable \in BOOLEAN
    /\ samplingRate = SampleSteps
    /\ \E built \in {{}, {"t"}} : StartTrails(built, MaxTraceCalls)
    /\ tracing = [pc |-> "idle", step |-> StartStep("", NilAny, NilAny, 0),
                  runs |-> 0, traces |-> 0,
                  out |-> <<NilAny, NilAny>>, ret |-> <<NilAny, NilAny>>]

\* TraceStep, lines 326-327: step := StartStep(name, req, nil), then fn(ctx)
\* is called
TraceStepCall(x, name, req) ==
    /\ tracing.pc = "idle"
    /\ trail[x].isNil \/ RoomFor(trail[x], "InternalSteps")
    /\ Call("TraceStep", x, NoHash)
    /\ tracing' = [tracing EXCEPT !.pc = "fn",
                                  !.step = StartStep(name, req, NilAny, now),
                                  !.runs = @ + 1]
    /\ UNCHANGED <<trail, nilPanic>>
    /\ UNCHANGED <<cfgImmutable, sampling, now, heap, callBudget>>
    /\ UNCHANGED <<bodyVars, asyncVars, maskVars, headerVars, lockVars, multiVars, argVars, writerVars, tripVars>>

\* TraceStep, lines 327-330: fn returns resp and err, then EndStep,
\* AddInternalStepToContext and return resp, err
TraceStepReturn(x, resp, err) ==
    /\ ~nilPanic
    /\ tracing.pc = "fn"
    /\ LET step == EndStep(tracing.step, resp, err, now)
       IN  /\ trail' = [trail EXCEPT ![x] = StepInContext(trail[x], step)]
           /\ tracing' = [tracing EXCEPT !.pc = "idle", !.step = step,
                                         !.traces = @ + 1,
                                         !.out = <<resp, err>>,
                                         !.ret = <<resp, err>>]
    /\ UNCHANGED <<lastOp, lastRet, calls, nilPanic>>
    /\ UNCHANGED <<cfgImmutable, sampling, now, heap, callBudget>>
    /\ UNCHANGED <<bodyVars, asyncVars, maskVars, headerVars, lockVars, multiVars, argVars, writerVars, tripVars>>

\* TraceStep calls, with the handler's Finalize and the clock beside them
NextTracing ==
    \/ \E name \in StepNames, req \in StepValues : TraceStepCall("t", name, req)
    \/ \E resp \in StepValues, err \in StepErrors : TraceStepReturn("t", resp, err)
    \/ Held("t") /\ Finalize("t")
    \/ Tick

\* ------------------------------------------------ HTTPRoundTripper.RoundTrip
\* no RoundTrip call exists
NoRoundTrip == trip = <<>>

\* parseAndMaskJSON(msk, bodyBytes) of the captured bytes d: nil for no bytes,
\* otherwise the masked document of these bytes (what it holds is the
\* masker's part)
CapturedJSON(d) == IF Len(d) = 0 THEN Null ELSE <<"parseAndMaskJSON", d>>

\* the Integration RoundTrip builds, lines 62-91, for a request without a
\* body and without headers
BuiltIntegration(latency, hasResp, respBody, err) ==
    [Type |-> "http", Name |-> "GET bank.example/v1/charge",
     LatencyMs |-> latency,
     Request |-> [method |-> "GET", url |-> "https://bank.example/v1/charge",
                  headers |-> EmptyMap, body |-> Null],
     Response |-> IF hasResp
                  THEN [status |-> 200, headers |-> EmptyMap, body |-> respBody]
                  ELSE Null,
     Error |-> IF err # NilAny THEN ErrorText(err) ELSE ""]

\* trail.AddIntegration(integration)
WithBuiltIntegration(tr, g) ==
    IF tr.immutable THEN tr ELSE [tr EXCEPT !.Integrations = Append(@, g)]

\* a RoundTrip call is about to reach rt.Base.RoundTrip(req): the context
\* holds a Trail or none, the base transport will return a response (whose
\* body is the source stream) or nil, and an error or nil
InitTrip ==
    /\ InitBody
    /\ trip \in [pc : {"start"},
                 trail : [isNil : BOOLEAN, immutable : BOOLEAN,
                          Integrations : {<<>>}],
                 resp : BOOLEAN, err : StepErrors, latency : {0},
                 ret : {<<>>}]
    /\ trip.trail.isNil => ~trip.trail.immutable
    /\ ~trip.resp => srcNil

\* lines 57-59: rt.Base.RoundTrip(req) returns after d milliseconds
RoundTripBase(d) ==
    /\ trip.pc = "start"
    /\ trip' = [trip EXCEPT !.pc = "base", !.latency = d]
    /\ UNCHANGED <<bodyVars, asyncVars, trailVars, maskVars, headerVars, lockVars, multiVars, argVars, writerVars, traceVars>>

\* lines 75-79: respReader.ReadAndRestore(resp.Body), with a Trail in the
\* context and a response that has a body
RoundTripRead ==
    /\ trip.pc = "base"
    /\ ~trip.trail.isNil
    /\ trip.resp
    /\ ~srcNil
    /\ ReadAndRestore

\* lines 61-95: the Integration is built and added, and resp (its Body
\* replaced by newBody when ReadAndRestore returned no error) and err are
\* returned
RoundTripReturn ==
    /\ trip.pc = "base"
    /\ trip.trail.isNil \/ ~trip.resp \/ srcNil \/ rar = "returned"
    /\ LET read == rar = "returned" /\ ~rarErr
           g == BuiltIntegration(trip.latency, trip.resp,
                                 IF read THEN CapturedJSON(data) ELSE Null,
                                 trip.err)
       IN  trip' = [trip EXCEPT
                      !.pc = "done",
                      !.trail = IF @.isNil THEN @ ELSE WithBuiltIntegration(@, g),
                      !.ret = [resp |-> trip.resp,
                               body |-> IF read THEN "newBody" ELSE "resp.Body",
                               err |-> trip.err]]
    /\ UNCHANGED <<bodyVars, asyncVars, trailVars, maskVars, headerVars, lockVars, multiVars, argVars, writerVars, traceVars>>

\* the caller reads n bytes off the Body of the response RoundTrip returned
CallerRead(n) ==
    /\ trip.pc = "done"
    /\ trip.ret.resp
    /\ ReplayRead(n)

NextRoundTrip ==
    \/ \E d \in 0..MaxClock : RoundTripBase(d)
    \/ RoundTripRead
    \/ RoundTripReturn
    \/ \E n \in 1..MaxChunk : CallerRead(n)

\* ------------------------------------------------- the blocking AsyncSink
\* NewAsyncSink(s, queueSize, WithWorkers(n)): Write blocks on a full queue
InitBlock ==
    /\ queueSize \in 1..MaxQueue
    /\ workers \in 1..MaxWorkers
    /\ dropOnFull = FALSE
    /\ onError = FALSE
    /\ budget = MaxWrites
    /\ Started

\* the pipeline in blocking mode: the default arm of Write is never taken
NextBlocking ==
    \/ \E w \in Writers, ctx \in {"live", "pre"} : WriteCheck(w, ctx)
    \/ \E w \in Writers : CtxCancel(w)
    \/ \E w \in Writers : WriteSend(w)
    \/ \E w \in Writers : WriteCancel(w)
    \/ \E w \in Writers : WritePanic(w)
    \/ \E k \in 1..MaxWorkers : WorkerTake(k)
    \/ \E k \in 1..MaxWorkers, err \in BOOLEAN : WorkerWritten(k, err)
    \/ \E k \in 1..MaxWorkers : WorkerExit(k)
    \/ \E c \in Closers : CloseCheck(c)
    \/ \E c \in Closers : CloseQueue(c)
    \/ \E c \in Closers : CloseSink(c)

\* ------------------------------------------------------- specifications
\* the body reader alone: no pipeline is built
InitReader == InitBody /\ NoAsync /\ NoTrails /\ NoMasking /\ NoFilter /\ NoRecorders /\ NoMultiSink /\ NoSinkArgs /\ NoWriter /\ NoTracing /\ NoRoundTrip
SpecBody == InitReader /\ [][NextBody]_vars

\* the pipeline alone: no body is read
Init == InitAsync /\ NoBodyRead /\ NoTrails /\ NoMasking /\ NoFilter /\ NoRecorders /\ NoMultiSink /\ NoSinkArgs /\ NoWriter /\ NoTracing /\ NoRoundTrip
Spec == Init /\ [][NextAsync]_vars

\* the drop-on-full pipeline with every worker stalled for good
InitStalled == InitDrop /\ NoBodyRead /\ NoTrails /\ NoMasking /\ NoFilter /\ NoRecorders /\ NoMultiSink /\ NoSinkArgs /\ NoWriter /\ NoTracing /\ NoRoundTrip
SpecDrop == InitStalled /\ [][NextStalled]_vars

\* one Trail alone: no body is read and no pipeline is built
InitTrail == InitTrails /\ NoBodyRead /\ NoAsync /\ NoMasking /\ NoFilter /\ NoRecorders /\ NoMultiSink /\ NoSinkArgs /\ NoWriter /\ NoTracing /\ NoRoundTrip
SpecTrail == InitTrail /\ [][NextTrail]_vars

\* two Trails built alike
InitTwoTrails == InitPair /\ NoBodyRead /\ NoAsync /\ NoMasking /\ NoFilter /\ NoRecorders /\ NoMultiSink /\ NoSinkArgs /\ NoWriter /\ NoTracing /\ NoRoundTrip
SpecPair == InitTwoTrails /\ [][NextPair]_vars

\* a Trail and its clone
InitCloned == InitClone /\ NoBodyRead /\ NoAsync /\ NoMasking /\ NoFilter /\ NoRecorders /\ NoMultiSink /\ NoSinkArgs /\ NoWriter /\ NoTracing /\ NoRoundTrip
SpecClone == InitCloned /\ [][NextClone]_vars

\* one unit of work, from NewTrail to the sink
InitUnit == InitHandler /\ NoBodyRead /\ NoAsync /\ NoMasking /\ NoFilter /\ NoRecorders /\ NoMultiSink /\ NoSinkArgs /\ NoWriter /\ NoTracing /\ NoRoundTrip
SpecHandler == InitUnit /\ [][NextHandler]_vars

\* one Masker alone
InitMask == InitMasker /\ NoBodyRead /\ NoAsync /\ NoTrails /\ NoFilter /\ NoRecorders /\ NoMultiSink /\ NoSinkArgs /\ NoWriter /\ NoTracing /\ NoRoundTrip
SpecMask == InitMask /\ [][NextMasker]_vars

\* one header Filter alone
InitHeaders == InitFilter /\ NoBodyRead /\ NoAsync /\ NoTrails /\ NoMasking /\ NoRecorders /\ NoMultiSink /\ NoSinkArgs /\ NoWriter /\ NoTracing /\ NoRoundTrip
SpecFilter == InitHeaders /\ [][NextFilter]_vars

\* goroutines recording on one Trail at the same time
InitRecording == InitRecorders /\ NoBodyRead /\ NoAsync /\ NoMasking /\ NoFilter /\ NoMultiSink /\ NoSinkArgs /\ NoWriter /\ NoTracing /\ NoRoundTrip
SpecRecorders == InitRecording /\ [][NextRecorders]_vars

\* one MultiSink alone
InitMulti == InitMultiSink /\ NoBodyRead /\ NoAsync /\ NoTrails /\ NoMasking /\ NoFilter /\ NoRecorders /\ NoSinkArgs /\ NoWriter /\ NoTracing /\ NoRoundTrip
SpecMulti == InitMulti /\ [][NextMultiSink]_vars

\* one request served by HTTPMiddleware.Handler
InitRequest == InitMiddleware /\ NoBodyRead /\ NoAsync /\ NoMasking /\ NoFilter /\ NoRecorders /\ NoMultiSink /\ NoSinkArgs /\ NoWriter /\ NoTracing /\ NoRoundTrip
SpecMiddleware == InitRequest /\ [][NextMiddleware]_vars

\* the AsyncSink with its workers taken line by line
InitOrder == InitDelivery /\ NoBodyRead /\ NoTrails /\ NoMasking /\ NoFilter /\ NoRecorders /\ NoMultiSink /\ NoSinkArgs /\ NoWriter /\ NoTracing /\ NoRoundTrip
SpecOrder == InitOrder /\ [][NextOrder]_vars


\* the AsyncSink built from any arguments, its workers taken line by line
InitBounded == InitSized /\ NoBodyRead /\ NoTrails /\ NoMasking /\ NoFilter /\ NoRecorders /\ NoMultiSink /\ NoWriter /\ NoTracing /\ NoRoundTrip
SpecBounded == InitBounded /\ [][NextOrder]_vars

\* one response-capturing writer and the Write calls of a handler
InitCapture == InitWriter /\ NoBodyRead /\ NoAsync /\ NoTrails /\ NoMasking /\ NoFilter /\ NoRecorders /\ NoMultiSink /\ NoSinkArgs /\ NoTracing /\ NoRoundTrip
SpecWriter == InitCapture /\ [][NextWriter]_vars

\* TraceStep calls on a context with or without a Trail
InitStep == InitTracing /\ NoBodyRead /\ NoAsync /\ NoMasking /\ NoFilter /\ NoRecorders /\ NoMultiSink /\ NoSinkArgs /\ NoWriter /\ NoRoundTrip
SpecStep == InitStep /\ [][NextTracing]_vars

\* one RoundTrip call of the outbound round tripper, then its caller
InitOutbound == InitTrip /\ NoAsync /\ NoTrails /\ NoMasking /\ NoFilter /\ NoRecorders /\ NoMultiSink /\ NoSinkArgs /\ NoWriter /\ NoTracing
SpecRoundTrip == InitOutbound /\ [][NextRoundTrip]_vars

\* the AsyncSink in blocking mode, with cancellation and Close racing
InitBlocking == InitBlock /\ NoBodyRead /\ NoTrails /\ NoMasking /\ NoFilter /\ NoRecorders /\ NoMultiSink /\ NoSinkArgs /\ NoWriter /\ NoTracing /\ NoRoundTrip
SpecBlocking == InitBlocking /\ [][NextBlocking]_vars

\* --------------------------------------------------------------- claims
\* the source was read without error and read to its end through newBody
ReplayComplete == rar = "returned" /\ ~srcNil /\ ~rarErr /\ replayEnd = "eof"

\* C1: with a source longer than the ceiling, the captured bytes are the
\* first maxSize bytes of the source and the fully read replacement stream
\* yields every byte of the source in order.
C1_LargeBodyReplaysWhole ==
    (ReplayComplete /\ Len(src) > maxSize)
        => (data = Take(src, maxSize) /\ replayOut = src)

\* C2: with a source no longer than the ceiling, the captured bytes are the
\* whole source, the source is closed, and the replacement stream yields
\* those bytes and no others.
C2_SmallBodyRoundTrip ==
    (rar = "returned" /\ ~srcNil /\ ~srcErr /\ Len(src) <= maxSize)
        => /\ data = src
           /\ ~rarErr
           /\ srcClosed
           /\ replayOut = Take(src, Len(replayOut))
           /\ replayEnd # "err"
           /\ replayEnd = "eof" => replayOut = src

C2_Witness ==
    /\ ReplayComplete
    /\ Len(src) = maxSize
    /\ Len(src) > 0
    /\ srcClosed
    /\ replayOut = src


\* every Write call of the budget has been made and has returned
AllWritesReturned == nextId > budget /\ \A w \in Writers : wpc[w] = "idle"

\* no sink.Write call has returned so far: the workers are stalled
NoSinkWriteReturned ==
    \A i \in 1..Len(sinkWrites) :
        \E k \in 1..MaxWorkers : kpc[k] = "write" /\ ktrail[k] = sinkWrites[i]

\* a step of writer w's Write call past the closed check
WriteStep(w) == WriteSend(w) \/ WriteDrop(w) \/ WriteCancel(w) \/ WritePanic(w)

\* C3 as stated: in drop-on-full mode with capacity K and every worker
\* stalled for good, after K+5 Write calls sink.Write has been called for at
\* most K trails.
C3_AtMostCapacityReachSink ==
    AllWritesReturned => Len(sinkWrites) <= queueSize

\* C3, amended: in drop-on-full mode with capacity K and W workers stalled
\* for good, sink.Write is called for at most W trails (one per worker) and at
\* most K + W trails are ever accepted into the pipeline.
C3_AtMostWorkersReachSink ==
    /\ Len(sinkWrites) <= workers
    /\ Cardinality(enqueued) <= queueSize + workers
    /\ Len(queue) <= queueSize

C3_Witness ==
    /\ AllWritesReturned
    /\ budget = queueSize + ExtraWrites
    /\ Len(sinkWrites) = workers
    /\ Cardinality(enqueued) = queueSize + workers
    /\ workers > queueSize
    /\ ~closed

\* C4: in drop-on-full mode a Write call past the closed check can always
\* return nil at once (by enqueueing or by dropping), whatever the state of
\* the queue and the workers; no Write returns an error and none fails.
C4_DropWriteReturnsNilAtOnce ==
    dropOnFull =>
        /\ ~panicked
        /\ \A i \in 1..budget : ret[i] \in {"none", "nil"}
        /\ \A w \in Writers :
               wpc[w] = "cloned" => ENABLED (WriteSend(w) \/ WriteDrop(w))

\* C5: in blocking mode with capacity 1 and stalled workers, a Write whose
\* ctx is live stays suspended while the queue is full, and leaves only by
\* enqueueing (nil) or by cancellation (ctx.Err()); a Write called with an
\* already cancelled ctx returns ctx.Err() and enqueues nothing.
C5_BlockingWriteWaitsOrCancels ==
    /\ [](\A w \in Writers :
            (/\ ~dropOnFull
             /\ queueSize = 1
             /\ NoSinkWriteReturned
             /\ wpc[w] = "cloned"
             /\ wctx[w] = "live"
             /\ Len(queue) = queueSize) => ~ENABLED WriteStep(w))
    /\ [][\A w \in Writers :
            (/\ ~dropOnFull
             /\ queueSize = 1
             /\ NoSinkWriteReturned
             /\ wpc[w] = "cloned"
             /\ wctx[w] = "pre"
             /\ wpc'[w] = "idle")
            => (ret'[wtrail[w]] = "ctxErr" /\ enqueued' = enqueued)]_vars

\* C6: when sink.Close is called every trail ever enqueued has been passed to
\* sink.Write, which has returned, and the queue is empty; after sink.Close
\* nothing is enqueued and sink.Write is not called again.
C6_CloseDrainsBeforeSinkClose ==
    /\ [](sinkCloses > 0 =>
            /\ queue = <<>>
            /\ enqueued \subseteq Range(sinkWrites)
            /\ \A k \in 1..MaxWorkers : kpc[k] # "write")
    /\ [][sinkCloses > 0 =>
            (sinkWrites' = sinkWrites /\ enqueued' = enqueued)]_vars

C6_Witness ==
    /\ sinkCloses = 1
    /\ Cardinality(enqueued) >= 2
    /\ Range(sinkWrites) = enqueued
    /\ \E i \in 1..budget : ret[i] = "nil" /\ i \notin enqueued

\* C7: a Write call that finds the pipeline closed returns nil at once, in
\* either mode: it clones nothing, enqueues nothing and nothing reaches the sink.
C7_WriteAfterCloseIsNoOp ==
    [][(closed /\ nextId' # nextId) =>
          /\ ret'[nextId] = "nil"
          /\ wpc' = wpc
          /\ wtrail' = wtrail
          /\ queue' = queue
          /\ enqueued' = enqueued
          /\ sinkWrites' = sinkWrites]_vars

C7_Witness ==
    /\ closed
    /\ \E i \in 1..budget :
           /\ ret[i] = "nil"
           /\ i \notin enqueued
           /\ ~dropOnFull
    /\ \E i \in 1..budget : i \in enqueued

\* C8: the queue is closed at most once and sink.Close is called at most
\* once, exactly once by the time the first Close call has returned; a Close
\* call that finds the pipeline closed returns nil and touches neither the
\* queue nor the sink.
C8_CloseIdempotent ==
    /\ [](/\ queueCloses <= 1
          /\ sinkCloses <= 1
          /\ cpc["c1"] = "done" => (queueCloses = 1 /\ sinkCloses = 1))
    /\ [][\A c \in Closers :
            (closed /\ cpc[c] = "idle" /\ cpc'[c] # "idle") =>
                /\ cpc'[c] = "done"
                /\ UNCHANGED <<closed, queue, qClosed, queueCloses, sinkCloses,
                               panicked>>]_vars

C8_Witness ==
    /\ \A c \in Closers : cpc[c] = "done"
    /\ queueCloses = 1
    /\ sinkCloses = 1
    /\ enqueued # {}

C10_SinkFailureOnlyThroughCallback ==
    /\ [](/\ errCalls = (IF onError THEN sinkErrs ELSE 0)
          /\ \A i \in 1..budget :
                 /\ ret[i] \in {"none", "nil", "ctxErr"}
                 /\ ret[i] = "ctxErr" => (~dropOnFull /\ i \notin enqueued)
                 /\ i \in Range(sinkWrites) => ret[i] = "nil")
    /\ [][\A k \in 1..MaxWorkers :
            (kpc[k] = "write" /\ kpc'[k] # "write") =>
                (kpc'[k] = "range" /\ ret' = ret)]_vars

C10_Witness ==
    /\ onError
    /\ sinkErrs = 1
    /\ errCalls = 1
    /\ workers = 1
    /\ Len(sinkWrites) >= 2
    /\ kpc[1] = "write"

\* ---------------------------------------------------- claims on the Trail
\* the Trail was built under Immutable = true and Finalize has run on it
FinalizedImmutable(x) == cfgImmutable /\ ~trail[x].isNil /\ trail[x].Hash # NoHash
\* this step is a call of one of the operations in ops on Trail variable x
CallOf(ops, x) == calls' # calls /\ lastOp'[1] \in ops /\ lastOp'[2] = x
\* this step changes no Trail, no request or response object, returns no
\* value and does not panic
NoOpStep ==
    /\ trail' = trail
    /\ reqs' = reqs
    /\ resps' = resps
    /\ lastRet' = NoHash
    /\ ~nilPanic'

\* C11: once a Trail built with Immutable = true has been finalized, every
\* AddError, AddErrorWithCode, AddIntegration, AddInternalStep and
\* SetMetadata call leaves every field of the Trail unchanged and neither
\* returns a value nor panics
C11_AddsAfterFinalizeAreNoOps ==
    [][(FinalizedImmutable("t")
          /\ CallOf({"AddError", "AddErrorWithCode", "AddIntegration",
                     "AddInternalStep", "SetMetadata"}, "t"))
        => NoOpStep]_vars

\* an AddError call was made on the finalized immutable Trail, and the Trail
\* holds no error
C11_Witness ==
    /\ FinalizedImmutable("t")
    /\ lastOp = <<"AddError", "t">>
    /\ trail["t"].Errors = <<>>
    /\ ~nilPanic

\* C12: once a Trail is immutable, SetRequest, SetResponse and SetPrevHash
\* leave Request, Response, the previous hash and all other Trail state
\* unchanged
C12_SettersAfterFinalizeAreNoOps ==
    [][(FinalizedImmutable("t")
          /\ CallOf({"SetRequest", "SetResponse", "SetPrevHash"}, "t"))
        => NoOpStep]_vars

\* nothing hashed has changed since Finalize stored the hash of Trail x
HashIsCurrent(x) ==
    \A os \in IterOrders \X IterOrders :
        trail[x].Hash = computeHashLocked(trail[x], os)

\* C13: after the first Finalize of a Trail built with Immutable = true, a
\* further Finalize leaves LatencyMs and Hash unchanged (stated for a Trail
\* that nothing has touched since the first Finalize)
C13_SecondFinalizeIsNoOp ==
    [][(FinalizedImmutable("t") /\ HashIsCurrent("t") /\ CallOf({"Finalize"}, "t"))
        => /\ trail'["t"].LatencyMs = trail["t"].LatencyMs
           /\ trail'["t"].Hash = trail["t"].Hash]_vars

\* C14: right after Finalize the Hash field is not empty and equals what
\* ComputeHash returns for the same Trail, whatever order the maps are
\* ranged over
C14_FinalizeStoresCurrentHash ==
    lastOp = <<"Finalize", "t">>
        => /\ trail["t"].Hash # NoHash
           /\ \A os \in IterOrders \X IterOrders :
                 trail["t"].Hash = computeHashLocked(trail["t"], os)

\* Finalize has just run, a millisecond after NewTrail, on a Trail with a
\* request and a previous hash
C14_Witness ==
    /\ lastOp = <<"Finalize", "t">>
    /\ trail["t"].Request # 0
    /\ trail["t"].prevHash # ""
    /\ trail["t"].LatencyMs > 0
    /\ trail["t"].Hash # NoHash

\* the hashed fields of two Trails are equal: every field but Hash, the
\* immutable flag, the Config and the layout of the metadata map
SameFields(a, b) ==
    /\ ~a.isNil /\ ~b.isNil
    /\ a.Timestamp = b.Timestamp
    /\ a.TraceID = b.TraceID
    /\ a.RequestID = b.RequestID
    /\ a.Service = b.Service
    /\ a.Environment = b.Environment
    /\ a.Request = b.Request
    /\ a.Response = b.Response
    /\ a.LatencyMs = b.LatencyMs
    /\ a.InternalSteps = b.InternalSteps
    /\ a.Integrations = b.Integrations
    /\ a.Errors = b.Errors
    /\ a.Metadata = b.Metadata
    /\ a.prevHash = b.prevHash

\* C15: the digest ComputeHash has just returned for a Trail is the digest
\* every further call returns for it, and the digest every call returns for
\* a Trail with the same field values and the same previous hash, however
\* the two Trails were filled
C15_ComputeHashDeterministic ==
    lastOp[1] = "ComputeHash"
        => \A y \in TrailIds, os \in IterOrders \X IterOrders :
              SameFields(trail[lastOp[2]], trail[y])
                  => computeHashLocked(trail[y], os) = lastRet

\* ComputeHash has just returned for t; c holds the same values, one of
\* them written twice, and the same previous hash
C15_Witness ==
    /\ lastOp = <<"ComputeHash", "t">>
    /\ SameFields(trail["t"], trail["c"])
    /\ trail["t"].prevHash # ""
    /\ DOMAIN trail["t"].Metadata # {}
    /\ calls = MaxPairCalls

\* C16: two Trails whose metadata maps hold the same pairs, nested maps
\* included, and whose other hashed fields are equal have the same digest,
\* in whatever order the keys were inserted and in whatever order the maps
\* are ranged over: every range order gives the digest the sorted order gives
C16_HashIgnoresKeyOrder ==
    \A x, y \in TrailIds :
        SameFields(trail[x], trail[y])
            => \A os \in IterOrders \X IterOrders :
                  computeHashLocked(trail[x], os)
                      = computeHashLocked(trail[y], <<KeyOrder, KeyOrder>>)

\* t and c hold the same two metadata pairs, one of them a nested map,
\* inserted in opposite orders
C16_Witness ==
    /\ SameFields(trail["t"], trail["c"])
    /\ DOMAIN trail["t"].Metadata = MetaKeys
    /\ \E k \in MetaKeys : trail["t"].Metadata[k][1] = "m"
    /\ trail["t"].metaOrder # trail["c"].metaOrder
    /\ lastOp[1] = "ComputeHash"

\* two Trails are equal in every hashed field but the previous hash
DifferInPrevHash(a, b) ==
    /\ SameFields(a, WithPrevHash(b, a.prevHash))
    /\ a.prevHash # b.prevHash

Observable(y) ==
    <<trail[y],
      IF trail[y].Request = 0 THEN <<>> ELSE <<reqs[trail[y].Request]>>,
      IF trail[y].Response = 0 THEN <<>> ELSE <<resps[trail[y].Response]>>>>

\* C18: once c is the clone of t, no Add*, SetMetadata, SetRequest or
\* SetResponse call on one of them, and no change made through its request
\* or response and their header maps, changes what can be read through the
\* other
C18_CloneIsIndependent ==
    [][\A x \in TrailIds : \A y \in TrailIds \ {x} :
          (Held(x) /\ Held(y)
             /\ CallOf({"AddError", "AddErrorWithCode", "AddIntegration",
                        "AddInternalStep", "SetMetadata", "SetRequest",
                        "SetResponse", "SetRequestHeader",
                        "SetResponseHeader"}, x))
          => Observable(y)' = Observable(y)]_vars

\* C19: when sampling rejected the Trail, no operation of the unit of work
\* panics
C19_NoTrailIsIgnorable == trail["t"].isNil => ~nilPanic

MaskedNow ==
    \/ maskOp[1] \in {"MaskMap", "MaskSlice"}
    \/ maskOp = <<"ParseAndMaskJSON", FALSE>> /\ input[2] # ""
\* the value the last call masked
MaskedInput == IF IsBytes(input) THEN JSONValue[input[2]] ELSE input

\* every sensitive key of v, at any depth, holds the mask literal
RECURSIVE SensitiveKeysMasked(_, _)
SensitiveKeysMasked(m, v) ==
    IF IsMap(v)
    THEN \A k \in DOMAIN v[2] :
            IF ToLower(k) \in m.fields
            THEN v[2][k] = Str(m.maskValue)
            ELSE SensitiveKeysMasked(m, v[2][k])
    ELSE IF IsSlice(v)
    THEN \A i \in 1..Len(v[2]) : SensitiveKeysMasked(m, v[2][i])
    ELSE TRUE

\* C21: in the output of an enabled Masker, every key whose lower-cased form
\* is a configured sensitive field, at any depth and inside sequences too,
\* holds the mask literal and nothing of the original value.
C21_RedactionReachesEveryDepth ==
    (MaskedNow /\ enabled) => SensitiveKeysMasked(masker, output)

\* a sensitive key spelled in upper case, inside a map inside a sequence
\* inside a map, was masked
C21_Witness ==
    /\ maskOp = <<"MaskMap">>
    /\ enabled
    /\ fields = {"password"}
    /\ input = Obj("amount", <<"a", <<Obj("Password", Str("secret"))>>>>)
    /\ output = Obj("amount", <<"a", <<Obj("Password", Str(maskValue))>>>>)

\* b is a with the whole value of every sensitive key replaced by the mask
\* literal and nothing else changed
RECURSIVE OnlyMasked(_, _, _)
OnlyMasked(m, a, b) ==
    IF IsMap(a)
    THEN /\ IsMap(b)
         /\ DOMAIN b[2] = DOMAIN a[2]
         /\ \A k \in DOMAIN a[2] :
               IF ToLower(k) \in m.fields
               THEN b[2][k] = Str(m.maskValue)
               ELSE OnlyMasked(m, a[2][k], b[2][k])
    ELSE IF IsSlice(a)
    THEN /\ IsSlice(b)
         /\ Len(b[2]) = Len(a[2])
         /\ \A i \in 1..Len(a[2]) : OnlyMasked(m, a[2][i], b[2][i])
    ELSE b = a

\* C22: masking replaces the whole value of a sensitive key without
\* descending into it, keeps every map's key set and every sequence's length
\* and order, leaves the other scalars alone, and is the identity when the
\* Masker is disabled.
C22_RedactionChangesNothingElse ==
    MaskedNow => IF enabled THEN OnlyMasked(masker, MaskedInput, output)
                 ELSE output = MaskedInput

\* a sensitive key that held a nested map holds the literal, its sibling is
\* unchanged
C22_Witness ==
    /\ maskOp = <<"MaskMap">>
    /\ enabled
    /\ input = ObjWithAmount("Password", Obj("token", Str("secret")))
    /\ output = ObjWithAmount("Password", Str(maskValue))

\* C23: every capture path stores a body that cannot be deserialized as the
\* string of its raw bytes.
C23_MalformedBodyKeptAsString ==
    (maskOp[1] \in {"middleware", "roundtrip"} /\ input[2] \in Malformed)
        => output = Str(input[2])

\* the value list Filter gives a key it lets through
FilteredList(k) ==
    IF ToLower(k) \in headerFilter.excludeHeaders
    THEN <<headerFilter.maskValue>>
    ELSE Contents(headers, slices)[k]

\* C24: without an allow-list, Filter returns exactly the input's keys as
\* they are spelled; a key whose lower-cased name is deny-listed holds the
\* one-element list of the mask literal, every other key its full value list.
C24_DenyListMasksInPlace ==
    (filterOp = <<"Filter">> /\ headerFilter.includeNil)
        => /\ DOMAIN result.m = DOMAIN headers.m
           /\ \A k \in DOMAIN result.m :
                 Contents(result, slices)[k] = FilteredList(k)

\* the scenario of the default deny-list: Authorization is masked, X-Test
\* keeps both its values
C24_Witness ==
    /\ filterOp = <<"Filter">>
    /\ headerFilter = NewFilter(<<"unset">>, <<"unset">>)
    /\ Contents(headers, slices) =
          [k \in {"Authorization", "X-Test"} |->
             IF k = "X-Test" THEN <<"Bearer abc", "ok">> ELSE <<"Bearer abc">>]
    /\ Contents(result, slices) =
          [k \in {"Authorization", "X-Test"} |->
             IF k = "X-Test" THEN <<"Bearer abc", "ok">> ELSE <<DefaultMaskValue>>]

\* C25: with an allow-list, a header is in the output iff its lower-cased
\* name is allow-listed; of those, the deny-listed are masked and the others
\* keep their values; a deny-listed header that is not allow-listed is absent.
C25_AllowListThenDenyList ==
    (filterOp = <<"Filter">> /\ ~headerFilter.includeNil /\ ~headers.isNil)
        => /\ DOMAIN result.m =
                 {k \in DOMAIN headers.m : ToLower(k) \in headerFilter.includeHeaders}
           /\ \A k \in DOMAIN result.m :
                 Contents(result, slices)[k] = FilteredList(k)

\* Authorization is allow-listed and deny-listed: masked; X-Test is only
\* allow-listed: kept; cookie is only deny-listed: absent
C25_Witness ==
    /\ filterOp = <<"Filter">>
    /\ headerFilter = NewFilter(<<"unset">>, <<"with", {"Authorization", "X-Test"}>>)
    /\ DOMAIN headers.m = HeaderNames
    /\ Contents(headers, slices)["X-Test"] = <<"Bearer abc">>
    /\ Contents(result, slices) =
          [k \in {"Authorization", "X-Test"} |->
             IF k = "X-Test" THEN <<"Bearer abc">> ELSE <<DefaultMaskValue>>]

\* C26: the map and the value lists Filter returns are fresh: a write to
\* the source map or to one of its value lists leaves the filtered map as it
\* was, and a write to the filtered map leaves the source as it was.
C26_FilterNeverAliases ==
    [][/\ filterOp'[1] \in {"SetSourceValue", "DeleteSource"}
           => Contents(result, slices)' = Contents(result, slices)
       /\ filterOp'[1] \in {"SetResultValue", "DeleteResult"}
           => Contents(headers, slices)' = Contents(headers, slices)]_vars

\* a value of the source's X-Test list was overwritten after filtering, and
\* the filtered map still holds the value it was given
C26_Witness ==
    /\ filterOp = <<"SetSourceValue", "X-Test">>
    /\ "X-Test" \in DOMAIN result.m
    /\ Contents(headers, slices)["X-Test"] = <<"changed">>
    /\ Contents(result, slices)["X-Test"] = <<"Bearer abc">>

\* the places in sequence s that hold the item of recorder r's i-th call
PlacesOf(s, op, r, i) == {j \in 1..Len(s) : s[j] = ItemOf(op, r, i)}
\* the place of the item of recorder r's i-th call, a call of op that returned
PlaceOf(r, i) ==
    CHOOSE j \in PlacesOf(trail["t"][FieldOf(rec[r].done[i])], rec[r].done[i], r, i) : TRUE

\* C27: every call of AddInternalStep, AddIntegration and AddError that
\* returned on the non-frozen Trail is recorded exactly once, the calls of one
\* goroutine are recorded in the order it made them, and nothing else is
\* recorded.
C27_ConcurrentRecordersLoseNothing ==
    /\ \A r \in Recorders : \A i \in 1..Len(rec[r].done) :
          Cardinality(PlacesOf(trail["t"][FieldOf(rec[r].done[i])],
                               rec[r].done[i], r, i)) = 1
    /\ \A r \in Recorders : \A i, j \in 1..Len(rec[r].done) :
          (i < j /\ rec[r].done[i] = rec[r].done[j]) => PlaceOf(r, i) < PlaceOf(r, j)
    /\ Len(trail["t"].InternalSteps) + Len(trail["t"].Integrations)
          + Len(trail["t"].Errors)
          <= Len(rec["r1"].done) + Len(rec["r2"].done)
               + Cardinality({r \in Recorders : rec[r].pc = "return"})

\* both recorders called AddIntegration twice, interleaved: r2's first call
\* was recorded between r1's two calls
C27_Witness ==
    /\ \A r \in Recorders : rec[r].done = <<"AddIntegration", "AddIntegration">>
    /\ \A r \in Recorders : rec[r].pc = "idle"
    /\ Len(trail["t"].Integrations) = 4
    /\ trail["t"].Integrations[1].Name = <<"r1", 1>>
    /\ trail["t"].Integrations[2].Name = <<"r2", 1>>
    /\ trail["t"].Integrations[3].Name = <<"r1", 2>>

\* the members whose call failed in the MultiSink method that returned last
FailedMembers ==
    {memberCalls[j][2] : j \in {i \in 1..Len(memberCalls) : memberCalls[i][3]}}
\* the members whose failure an error value tells of
FailuresIn(err) ==
    IF err = NoError THEN {} ELSE {err[2]}

\* C28: when MultiSink.Write (Close) returns, every member was called once,
\* in order, whatever the earlier members returned, and the error returned is
\* non-nil iff a member failed and tells of every member that failed.
C28_MultiSinkAggregatesErrors ==
    multiRet[1] \in {"Write", "Close"}
        => /\ Len(memberCalls) = sinks
           /\ \A i \in 1..Len(memberCalls) :
                 memberCalls[i][1] = multiRet[1] /\ memberCalls[i][2] = i
           /\ (multiRet[2] # NoError) <=> (FailedMembers # {})
           /\ FailuresIn(multiRet[2]) = FailedMembers

\* the steps, integrations, errors and metadata a Trail holds
Entries(tr) == <<tr.InternalSteps, tr.Integrations, tr.Errors, tr.Metadata>>

Pending ==
    (IF kpc[1] = "took" THEN <<ktrail[1]>> ELSE <<>>) \o queue
\* the trails enqueued so far: those delivered, then those pending
Order == sinkWrites \o Pending

\* C30: with one worker the trails reach the external sink in the order they
\* were enqueued: the trails delivered followed by the trails pending are the
\* trails enqueued, each once; a step that enqueues a trail puts it last, and
\* every other step, a delivery included, leaves that order as it is.
C30_OneWorkerDeliversInEnqueueOrder ==
    [][workers = 1 =>
        /\ Range(Order) = enqueued
        /\ Len(Order) = Cardinality(enqueued)
        /\ \/ Order' = Order /\ enqueued' = enqueued
           \/ \E i \in enqueued' \ enqueued :
                 /\ Order' = Append(Order, i)
                 /\ enqueued' = enqueued \cup {i}
                 /\ sinkWrites' = sinkWrites
      ]_vars

\* one worker delivered two trails, the trail of the second Write call
\* first: it was enqueued first
C30_Witness ==
    /\ workers = 1
    /\ sinkWrites = <<2, 1>>
    /\ enqueued = {1, 2}

\* C31: the immutable flag of a Trail changes only in a Finalize call under a
\* Config with Immutable = true, and then to true; under Immutable = false the
\* Trail is never frozen, and an Add* or SetMetadata call made after Finalize
\* stores its entry.
C31_FrozenOnlyByConfiguredFinalize ==
    [][/\ trail'["t"].immutable # trail["t"].immutable
            => (CallOf({"Finalize"}, "t") /\ cfgImmutable /\ trail'["t"].immutable)
       /\ ~cfgImmutable => ~trail'["t"].immutable
       /\ (~cfgImmutable /\ trail["t"].Hash # NoHash) =>
            /\ CallOf({"AddInternalStep"}, "t")
                 => trail'["t"].InternalSteps = Append(trail["t"].InternalSteps, NewStep)
            /\ CallOf({"AddIntegration"}, "t")
                 => trail'["t"].Integrations = Append(trail["t"].Integrations, NewIntegration)
            /\ CallOf({"AddError"}, "t")
                 => trail'["t"].Errors = Append(trail["t"].Errors, NewError(""))
            /\ CallOf({"AddErrorWithCode"}, "t")
                 => \E code \in ErrorCodes :
                       trail'["t"].Errors = Append(trail["t"].Errors, NewError(code))
            /\ CallOf({"SetMetadata"}, "t")
                 => \E k \in MetaKeys, v \in MetaValues :
                       /\ trail'["t"].Metadata = MapSet(trail["t"].Metadata, k, v)
                       /\ trail'["t"].Metadata[k] = v
      ]_vars

\* under Immutable = false the Trail was finalized, and the AddError call
\* made after that put its error into the Trail
C31_Witness ==
    /\ ~cfgImmutable
    /\ trail["t"].Hash # NoHash
    /\ lastOp = <<"AddError", "t">>
    /\ trail["t"].Errors = <<NewError("")>>
    /\ ~trail["t"].immutable

\* C35: no Write ever finds the queue closed when it comes to send: a Write
\* that passed the closed check enqueues before close(a.queue) runs or
\* returns without enqueueing, and no goroutine panics.
C35_NoSendOnClosedQueue ==
    /\ ~panicked
    /\ \A w \in Writers : wpc[w] = "cloned" => ~qClosed

\* C36: the clone AsyncSink.Write makes of a finalized Trail, which is the
\* Trail the worker passes to sink.Write, has the Hash Finalize stored in the
\* original, and its previous hash and immutable flag.
C36_CloneCarriesTheHash ==
    (lastOp = <<"Write", "t">> /\ ~trail["t"].isNil /\ ~trail["c"].isNil
        /\ trail["t"].Hash # NoHash)
        => /\ trail["c"].Hash = trail["t"].Hash
           /\ trail["c"].prevHash = trail["t"].prevHash
           /\ trail["c"].immutable = trail["t"].immutable

\* C37: on a Trail built with Immutable = true, in every state after
\* Finalize the Hash field is what ComputeHash returns for the Trail as it is
\* (stated for Trails whose request and response objects nobody wrote to
\* behind the Trail's back).
C37_StoredHashStaysValid ==
    (FinalizedImmutable("t")
        /\ reqs = [p \in ReqIds |-> NewRequest]
        /\ resps = [p \in RespIds |-> NewResponse])
        => HashIsCurrent("t")

\* the workers that hold a trail: received, or inside sink.Write
InHands == {k \in 1..MaxWorkers : kpc[k] \in {"took", "write"}}

\* C38: the queue's capacity is the configured size, 1000 when that is <= 0,
\* and the worker count the configured one, 1 when that is <= 0; the queue
\* never holds more trails than its capacity, every enqueued trail that no
\* worker has passed to sink.Write is in the queue or in a worker's hands,
\* and the trails queued or in a worker's hands are at most N + W.
C38_PipelineMemoryIsBounded ==
    LET N == IF newSinkArgs.queueSize <= 0 THEN DefaultQueueSize
             ELSE newSinkArgs.queueSize
        W == IF newSinkArgs.workers <= 0 THEN 1 ELSE newSinkArgs.workers
    IN  /\ queueSize = N
        /\ workers = W
        /\ Cardinality({k \in 1..MaxWorkers : kpc[k] # "off"}) = W
        /\ Len(queue) <= N
        /\ enqueued \ Range(sinkWrites)
              \subseteq Range(queue) \cup {ktrail[k] : k \in InHands}
        /\ Len(queue) + Cardinality(InHands) <= N + W

\* a sink built with queueSize 1 and one worker holds N + W = 2 undelivered
\* trails: one the worker received, one in the queue, which is full
C38_Witness ==
    /\ newSinkArgs = [queueSize |-> 1, workers |-> 0]
    /\ Len(queue) = 1
    /\ kpc[1] = "took"
    /\ Cardinality(enqueued \ Range(sinkWrites)) = 2

\* the number of times trail i is in a queue slot or was passed to sink.Write
Copies(i) ==
    Cardinality({n \in 1..Len(queue) : queue[n] = i})
        + Cardinality({n \in 1..Len(sinkWrites) : sinkWrites[n] = i})

\* C39: in blocking mode a Write that returns ctx.Err() has enqueued nothing,
\* and its trail is in no queue slot, in no worker's hands and never passed
\* to sink.Write; a Write that passed the closed check and returns nil has
\* just put its clone in the queue, for the first and only time, and the
\* clone is in the queue or with the sink once, never twice.
C39_BlockingWriteResultIsTruthful ==
    /\ [](~dropOnFull =>
            \A i \in 1..budget :
                /\ ret[i] = "ctxErr" =>
                       /\ i \notin enqueued
                       /\ Copies(i) = 0
                       /\ \A k \in 1..MaxWorkers : ktrail[k] # i
                /\ Copies(i) = (IF i \in enqueued THEN 1 ELSE 0))
    /\ [][\A w \in Writers :
            (~dropOnFull /\ wpc[w] = "cloned" /\ wpc'[w] = "idle") =>
                /\ ret'[wtrail[w]] \in {"nil", "ctxErr"}
                /\ ret'[wtrail[w]] = "ctxErr" =>
                       (queue' = queue /\ enqueued' = enqueued)
                /\ ret'[wtrail[w]] = "nil" =>
                       /\ wtrail[w] \notin enqueued
                       /\ queue' = Append(queue, wtrail[w])
                       /\ enqueued' = enqueued \cup {wtrail[w]}]_vars

\* one blocking Write was cancelled and its trail is nowhere, another
\* returned nil and its trail went through the queue to the sink
C39_Witness ==
    /\ ~dropOnFull
    /\ ~closed
    /\ \E i, j \in 1..budget :
           /\ ret[i] = "ctxErr" /\ i \notin enqueued
           /\ ret[j] = "nil" /\ j \in Range(sinkWrites)
    /\ \E i \in 1..budget : ret[i] = "nil" /\ i \in Range(queue)

\* C40: whenever a Close call has returned, the first or one that raced it,
\* every worker has terminated, the queue is empty and sink.Close has been
\* called.
C40_CloseReturnsAfterShutdown ==
    \A c \in Closers :
        cpc[c] = "done" => (WgDone /\ queue = <<>> /\ sinkCloses >= 1)

\* C34: after any sequence of Write calls on a responseWriter with ceiling
\* maxSize the captured buffer is the first min(total, maxSize) bytes of all
\* the data given, so never longer than maxSize, and the wrapped writer has
\* been given every byte of every call.
C34_CaptureBoundedAndTransparent ==
    LET total == Len(rw.given)
        kept == IF total < rw.maxSize THEN total ELSE rw.maxSize
    IN  /\ rw.body = SubSeq(rw.given, 1, kept)
        /\ Len(rw.body) <= rw.maxSize
        /\ rw.forwarded = rw.given

\* three Write calls, the second cut in the middle by the ceiling and the
\* third captured not at all
C34_Witness ==
    /\ rw.maxSize = 2
    /\ rw.calls = 3
    /\ Len(rw.given) = 5
    /\ Len(rw.body) = 2

C33_OneIntegrationAndResponseUnchanged ==
    trip.pc = "done" =>
        /\ Len(trip.trail.Integrations)
               = (IF trip.trail.isNil \/ trip.trail.immutable THEN 0 ELSE 1)
        /\ \A i \in 1..Len(trip.trail.Integrations) :
               /\ trip.trail.Integrations[i].Type = "http"
               /\ trip.trail.Integrations[i].Error
                      = (IF trip.err = NilAny THEN "" ELSE trip.err[2])
        /\ trip.ret.err = trip.err
        /\ trip.ret.resp = trip.resp
        /\ (rar = "returned" /\ replayEnd = "eof") => replayOut = src

====
